---- MODULE Spec2Model ----
(***************************************************************************)
(* A model of cellflow.data._datamanager.DataManager: discovery of source  *)
(* splits and target conditions (iterative and vectorized strategy), the   *)
(* per-cell masks, the source -> condition mapping and the assembly of the *)
(* padded condition embeddings.                                            *)
(*                                                                         *)
(* A table (adata.obs) is a sequence of rows; a row is a record with the   *)
(* boolean control column and the covariate columns batch, cell_line and   *)
(* drug.  A 2-D numpy array is a sequence of rows, a row a sequence of     *)
(* numbers.  The representation tables (adata.uns / rep_dict) map a table  *)
(* key to a mapping from covariate key to a stored entry; an entry records *)
(* whether it is stored as an ndarray (np.asarray returns the same object) *)
(* or as a list (np.asarray copies).                                       *)
(***************************************************************************)
EXTENDS Integers, Sequences, FiniteSets, TLC

\* ------------------------------------------------------------------ bounds
MaxCells == 3        \* rows of the table a manager is constructed on
MaxStored == 2       \* a request is made while the stored representation entries are at most this
MaxPadRows == 3      \* rows of an array given to _pad_to_max_length
MaxPadLen == 3       \* max_combination_length given to _pad_to_max_length
MaxPadWidth == 2     \* columns of an array given to _pad_to_max_length
MaxNewCells == 2     \* rows of the table given to the constructor when it may fail
MaxPredRows == 2     \* rows of the covariate table of a prediction call
MaxPredCells == 2    \* cells of the adata of a prediction call
MaxCallbacks == 3    \* callbacks given to a CallbackRunner
MaxRunnerCalls == 2  \* calls of the hooks of one CallbackRunner
MaxShapeLen == 3     \* length of each axis of an array given to _check_shape

ColVals == {1, 2}    \* values a covariate column takes
PadVals == {0, 7}    \* entries of an array given to _pad_to_max_length
NullVals == {0, 9}   \* null_value given to _pad_to_max_length

VARIABLES
    adata,      \* self._adata.obs: the table the manager was constructed on
    uns,        \* adata.uns: the representation tables
    dm,         \* the DataManager's attributes
    req,        \* the arguments of the last request
    ret,        \* the ReturnData of the last request (or the error raised)
    padIn,      \* arguments of the last _pad_to_max_length call
    padOut,     \* its result
    call        \* a call made outside a request: its name, arguments and outcome

vars == <<adata, uns, dm, req, ret, padIn, padOut, call>>

\* ----------------------------------------------------------------- helpers
Range(s) == {s[i] : i \in DOMAIN s}

Contains(s, x) == \E i \in DOMAIN s : s[i] = x

\* df[keys] of one row, as a tuple in the order of keys
Project(row, keys) == [i \in 1..Len(keys) |-> row[keys[i]]]

\* order of two tuples of equal length, as sort_values(by=[...]) orders rows
LexLess(a, b) ==
    \E i \in 1..Len(a) : a[i] < b[i] /\ \A j \in 1..(i - 1) : a[j] = b[j]

\* drop_duplicates().sort_values(by=all columns): the distinct tuples, sorted
RECURSIVE SortTuples(_)
SortTuples(S) ==
    IF S = {} THEN <<>>
    ELSE LET m == CHOOSE x \in S : \A y \in S \ {x} : LexLess(x, y)
         IN  <<m>> \o SortTuples(S \ {m})

\* position of x in the sequence s of distinct elements (0 when absent)
IndexOf(s, x) == IF Contains(s, x) THEN CHOOSE i \in DOMAIN s : s[i] = x ELSE 0

\* the elements of s that are not in t, in the order of s
SeqMinus(s, t) == SelectSeq(s, LAMBDA x : ~Contains(t, x))


\* the permutations of 1..n, as sequences
Perms(n) == {p \in [1..n -> 1..n] : \A i, j \in 1..n : p[i] = p[j] => i = j}


Put(d, k, v) == (k :> v) @@ d

Merge(f, g) == g @@ f

\* ------------------------------------------------------------ construction
\* the sample_rep argument "X" of the constructor
XRep == [kind |-> "str", key |-> "X"]

\* the covariate group names of `perturbation_covariates`, in dict order
GroupNames(perturbation_covariates) ==
    [i \in 1..Len(perturbation_covariates) |-> perturbation_covariates[i].group]

RECURSIVE flatten_list(_)
flatten_list(groups) ==
    IF groups = <<>> THEN <<>>
    ELSE Head(groups).covars \o flatten_list(Tail(groups))

\* a variant without the comparison of source and target splits
verify_split_covariates_unchecked(obs, split_covariates) == FALSE

\* DataManager._verify_split_covariates: TRUE when it raises.  An empty
\* `split_covariates` stands for the argument None.
verify_split_covariates_raises(obs, split_covariates) ==
    IF split_covariates = <<>> THEN FALSE
    ELSE LET source_splits ==
                 {Project(obs[i], split_covariates) : i \in {j \in DOMAIN obs : obs[j].control}}
             target_splits ==
                 {Project(obs[i], split_covariates) : i \in {j \in DOMAIN obs : ~obs[j].control}}
         IN  source_splits \ target_splits # {}

\* max over a sequence of group lengths
RECURSIVE MaxLen(_)
MaxLen(groups) ==
    IF groups = <<>> THEN 0
    ELSE LET r == MaxLen(Tail(groups))
             h == Len(Head(groups).covars)
         IN  IF h > r THEN h ELSE r

\* a variant that always infers the length from the groups
max_combination_length_inferred(perturbation_covariates, max_combination_length) ==
    MaxLen(perturbation_covariates)

\* a variant that keeps an explicit max_combination_length as it was given
max_combination_length_as_given(perturbation_covariates, max_combination_length) ==
    IF max_combination_length = 0 THEN MaxLen(perturbation_covariates)
    ELSE max_combination_length

\* DataManager._get_max_combination_length; the argument 0 stands for None
get_max_combination_length(perturbation_covariates, max_combination_length) ==
    LET obs_max_combination_length == MaxLen(perturbation_covariates)
    IN  IF max_combination_length = 0 THEN obs_max_combination_length
        ELSE IF max_combination_length < obs_max_combination_length
             THEN obs_max_combination_length
             ELSE max_combination_length

\* DataManager._check_covariate_type for columns of one dtype
check_covariate_type(dtype) == dtype = "category"

\* DataManager._get_primary_covar_encoder: the fitted categories, in the
\* sorted order np.unique gives them; <<>> stands for no encoder (None).
\* The configured column names are given in sorted order.
get_primary_covar_encoder(obs, perturbation_covariates, perturbation_covariate_reps, dtype) ==
    LET primary_group == perturbation_covariates[1].group
        primary_covars == perturbation_covariates[1].covars
        is_categorical == check_covariate_type(dtype)
        all_values == {obs[i][primary_covars[k]] : i \in DOMAIN obs, k \in DOMAIN primary_covars}
    IN  IF primary_group \in DOMAIN perturbation_covariate_reps THEN <<>>
        ELSE IF is_categorical THEN [k \in 1..Cardinality(all_values) |-> SortTuples({<<v>> : v \in all_values})[k][1]]
        ELSE primary_covars

\* a variant without the comparison of the group lengths
verify_perturbation_covariates_any_length(data) ==
    IF ~data.given THEN [error |-> "", value |-> <<>>]
    ELSE IF Len(data.groups) = 0
    THEN [error |-> "ValueError: no perturbation covariates", value |-> <<>>]
    ELSE IF \E k \in DOMAIN data.groups : Len(data.groups[k].covars) = 0
    THEN [error |-> "ValueError: no covariates for group", value |-> <<>>]
    ELSE [error |-> "", value |-> data.groups]

\* DataManager._verify_perturbation_covariates; the argument is
\* [given, groups]: given FALSE stands for None, groups is the dict in order
verify_perturbation_covariates(data) ==
    IF ~data.given THEN [error |-> "", value |-> <<>>]
    ELSE IF Len(data.groups) = 0
    THEN [error |-> "ValueError: no perturbation covariates", value |-> <<>>]
    ELSE IF \E k \in DOMAIN data.groups : Len(data.groups[k].covars) = 0
    THEN [error |-> "ValueError: no covariates for group", value |-> <<>>]
    ELSE IF Cardinality({Len(data.groups[k].covars) : k \in DOMAIN data.groups}) # 1
    THEN [error |-> "ValueError: group lengths must match", value |-> <<>>]
    ELSE [error |-> "", value |-> data.groups]

\* DataManager._get_linked_perturbation_covariates: primary column -> group ->
\* linked column, by zip(primary_covars, covars, strict=False)
get_linked_perturbation_covariates(perturb_covariates) ==
    LET primary_covars == perturb_covariates[1].covars
    IN  [primary_cov \in Range(primary_covars) |->
            LET pos == IndexOf(primary_covars, primary_cov)
                linked == {k \in 2..Len(perturb_covariates) : pos <= Len(perturb_covariates[k].covars)}
            IN  [cov_group \in {perturb_covariates[k].group : k \in linked} |->
                    LET k == CHOOSE j \in linked : perturb_covariates[j].group = cov_group
                    IN  perturb_covariates[k].covars[pos]]]

\* DataManager._check_covariate_type: TRUE when it raises because the columns
\* covars are not all categorical or all numeric/boolean; dtypes maps a column
\* to "category" or "numeric"
check_covariate_type_raises(dtypes, covars) ==
    \E i, j \in DOMAIN covars : (dtypes[covars[i]] = "category") # (dtypes[covars[j]] = "category")

\* DataManager.__init__: the attributes of a constructed manager
DataManagerInit(obs, cfg) ==
    LET perturb_covar_keys ==
            flatten_list(cfg.perturbation_covariates) \o cfg.sample_covariates
        groups == GroupNames(cfg.perturbation_covariates) \o cfg.sample_covariates
    IN  [ sample_rep               |-> cfg.sample_rep,
          split_covariates         |-> cfg.split_covariates,
          sample_covariates        |-> cfg.sample_covariates,
          perturbation_covariates  |-> cfg.perturbation_covariates,
          covariate_reps           |-> Merge(cfg.perturbation_covariate_reps, cfg.sample_covariate_reps),
          max_combination_length   |->
              get_max_combination_length(cfg.perturbation_covariates, cfg.max_combination_length),
          null_value               |-> cfg.null_value,
          primary_one_hot_encoder  |->
              get_primary_covar_encoder(obs, cfg.perturbation_covariates,
                                        cfg.perturbation_covariate_reps, cfg.dtype),
          is_categorical           |-> check_covariate_type(cfg.dtype),
          covar_to_idx             |-> groups,
          perturb_covar_keys       |->
              perturb_covar_keys \o SeqMinus(cfg.split_covariates, perturb_covar_keys) ]

\* the outcome of DataManager(adata, ...) that raises
Failed(msg) == [error |-> msg, manager |-> <<>>, linked_perturb_covars |-> <<>>]

\* DataManager.__init__ with arguments that may be rejected: the error raised,
\* or the manager and its _linked_perturb_covars
DataManagerNew(args) ==
    LET pc == verify_perturbation_covariates(args.perturbation_covariates)
    IN  IF pc.error # "" THEN Failed(pc.error)
        ELSE IF verify_split_covariates_raises(args.obs, args.split_covariates)
        THEN Failed("ValueError: source without target")
        ELSE IF Len(pc.value) = 0
        THEN Failed("ValueError: max() arg is an empty sequence")
        ELSE IF check_covariate_type_raises(args.dtypes, pc.value[1].covars)
        THEN Failed("ValueError: mixed covariate types")
        ELSE [ error |-> "",
               manager |-> DataManagerInit(args.obs,
                   [ split_covariates |-> args.split_covariates,
                     sample_covariates |-> <<>>,
                     perturbation_covariates |-> pc.value,
                     dtype |-> args.dtypes[pc.value[1].covars[1]],
                     perturbation_covariate_reps |-> <<>>,
                     sample_covariate_reps |-> <<>>,
                     max_combination_length |-> args.max_combination_length,
                     null_value |-> 0, sample_rep |-> XRep ]),
               linked_perturb_covars |-> get_linked_perturbation_covariates(pc.value) ]

\* DataManager.is_conditional
is_conditional(m) ==
    Len(m.perturbation_covariates) > 0 \/ Len(m.sample_covariates) > 0

\* --------------------------------------------------------------- embedding
\* np.asarray(x) of a stored entry: the stored numbers (the same object when
\* the entry is an ndarray, a new array when it is a list)
Aliased(entry) == entry.kind = "ndarray"

\* a shape check that returns an (n, 1) array as it is
check_shape_no_transpose(arr) ==
    IF arr.ndim = 0 THEN [error |-> "", arr |-> << <<arr.val>> >>]
    ELSE IF arr.ndim = 1 THEN [error |-> "", arr |-> <<arr.val>>]
    ELSE IF arr.ndim = 2
         THEN IF Len(arr.val) = 1 \/ Len(arr.val[1]) = 1 THEN [error |-> "", arr |-> arr.val]
              ELSE [error |-> "ValueError: unexpected shape", arr |-> <<>>]
    ELSE [error |-> "ValueError: too many dimensions", arr |-> <<>>]

\* DataManager._check_shape of an array given as [ndim, val]: val is a number
\* (ndim 0), a sequence (ndim 1) or a sequence of rows (ndim 2)
check_shape(arr) ==
    IF arr.ndim = 0 THEN [error |-> "", arr |-> << <<arr.val>> >>]
    ELSE IF arr.ndim = 1 THEN [error |-> "", arr |-> <<arr.val>>]
    ELSE IF arr.ndim = 2
         THEN IF Len(arr.val) = 1 THEN [error |-> "", arr |-> arr.val]
              ELSE IF Len(arr.val[1]) = 1
                   THEN [error |-> "", arr |-> << [i \in 1..Len(arr.val) |-> arr.val[i][1]] >>]
                   ELSE [error |-> "ValueError: unexpected shape", arr |-> <<>>]
    ELSE [error |-> "ValueError: too many dimensions", arr |-> <<>>]

\* padding that cuts an array longer than max_combination_length
pad_truncating(arr, max_combination_length, null_value) ==
    [i \in 1..max_combination_length |->
        IF i <= Len(arr) THEN arr[i] ELSE [j \in 1..Len(arr[1]) |-> null_value]]

\* padding that appends max_combination_length rows whatever the length
pad_by_length(arr, max_combination_length, null_value) ==
    arr \o [i \in 1..max_combination_length |-> [j \in 1..Len(arr[1]) |-> null_value]]

\* DataManager._pad_to_max_length of a 2-D array with at least one row
pad_to_max_length(arr, max_combination_length, null_value) ==
    IF Len(arr) < max_combination_length
    THEN LET null_arr == [i \in 1..(max_combination_length - Len(arr)) |->
                             [j \in 1..Len(arr[1]) |-> null_value]]
         IN  arr \o null_arr
    ELSE arr

\* OneHotEncoder.transform of one value: shape (1, number of categories)
OneHot(encoder, x) == << [k \in 1..Len(encoder) |-> IF encoder[k] = x THEN 1 ELSE 0] >>

\* a variant that leaves the array as it is
Unscaled(v, value) == v

\* arr *= value on a sequence of numbers
Scale(v, value) == [k \in 1..Len(v) |-> v[k] * value]

\* np.tile(cov_arr, (n, 1)) of a (1, w) array
Tile(cov_arr, n) == [i \in 1..n |-> cov_arr[1]]

\* the format arguments of an error message that has none
NoArgs == [key |-> 0, table |-> ""]

\* the loop over primary_covars of _get_perturbation_covariates(_static) for
\* a manager with the primary group only: st = [error, rows, rep_dict]
RECURSIVE PrimaryLoop(_, _, _, _)
PrimaryLoop(m, condition_data, covs, st) ==
    IF covs = <<>> \/ st.error # "" THEN st
    ELSE
    LET primary_group == m.perturbation_covariates[1].group
        primary_cov == Head(covs)
        value == condition_data[primary_cov]
        cov_name == IF m.is_categorical THEN value ELSE primary_cov
        has_rep == primary_group \in DOMAIN m.covariate_reps
        rep_key == m.covariate_reps[primary_group]
    IN  IF has_rep /\ cov_name \notin DOMAIN st.rep_dict[rep_key]
        THEN [st EXCEPT !.error = "ValueError: representation not found",
                        !.msg_args = [key |-> cov_name, table |-> rep_key]]
        ELSE IF ~has_rep /\ ~Contains(m.primary_one_hot_encoder, cov_name)
        THEN [st EXCEPT !.error = "ValueError: unknown category"]
        ELSE
        LET entry == st.rep_dict[rep_key][cov_name]
            prim_arr == IF has_rep THEN [ndim |-> 1, val |-> entry.val]
                        ELSE [ndim |-> 2, val |-> OneHot(m.primary_one_hot_encoder, cov_name)]
            \* if not is_categorical: prim_arr *= value   (in place)
            scaled == IF m.is_categorical THEN prim_arr
                      ELSE IF has_rep THEN [prim_arr EXCEPT !.val = Scale(@, value)]
                      ELSE [prim_arr EXCEPT !.val = <<Scale(@[1], value)>>]
            rep_after == IF has_rep /\ ~m.is_categorical /\ Aliased(entry)
                         THEN [st.rep_dict EXCEPT ![rep_key][cov_name].val = scaled.val]
                         ELSE st.rep_dict
            shaped == check_shape(scaled)
        IN  PrimaryLoop(m, condition_data, Tail(covs),
                [error |-> shaped.error,
                 msg_args |-> st.msg_args,
                 rows |-> st.rows \o shaped.arr,
                 rep_dict |-> rep_after])

\* the loop over sample_covariates: st = [error, emb]
RECURSIVE SampleLoop(_, _, _, _, _)
SampleLoop(m, condition_data, rep_dict, covs, st) ==
    IF covs = <<>> \/ st.error # "" THEN st
    ELSE
    LET sample_cov == Head(covs)
        value == condition_data[sample_cov]
        has_rep == sample_cov \in DOMAIN m.covariate_reps
        rep_key == m.covariate_reps[sample_cov]
    IN  IF has_rep /\ value \notin DOMAIN rep_dict[rep_key]
        THEN [st EXCEPT !.error = "ValueError: representation not found",
                        !.msg_args = [key |-> value, table |-> sample_cov]]
        ELSE
        LET cov_arr == IF has_rep THEN [ndim |-> 1, val |-> rep_dict[rep_key][value].val]
                       ELSE [ndim |-> 0, val |-> value]
            shaped == check_shape(cov_arr)
        IN  SampleLoop(m, condition_data, rep_dict, Tail(covs),
                [error |-> shaped.error,
                 msg_args |-> st.msg_args,
                 emb |-> IF shaped.error # "" THEN st.emb
                         ELSE Put(st.emb, sample_cov, Tile(shaped.arr, m.max_combination_length))])

\* DataManager._get_perturbation_covariates and its copy
\* _get_perturbation_covariates_static: the embedding of one condition,
\* [error, emb, rep_dict]; rep_dict is the representation tables as the call
\* leaves them
get_perturbation_covariates(m, condition_data, rep_dict) ==
    LET primary_group == m.perturbation_covariates[1].group
        prim == PrimaryLoop(m, condition_data, m.perturbation_covariates[1].covars,
                            [error |-> "", msg_args |-> NoArgs, rows |-> <<>>, rep_dict |-> rep_dict])
        \* np.concatenate(v, axis=0) needs rows of one width
        ragged == \E i, j \in DOMAIN prim.rows : Len(prim.rows[i]) # Len(prim.rows[j])
        perturb_covar_emb ==
            (primary_group :> pad_to_max_length(prim.rows, m.max_combination_length, m.null_value))
        samp == SampleLoop(m, condition_data, prim.rep_dict, m.sample_covariates,
                           [error |-> "", msg_args |-> NoArgs, emb |-> <<>>])
    IN  IF prim.error # ""
        THEN [error |-> prim.error, msg_args |-> prim.msg_args, emb |-> <<>>, rep_dict |-> prim.rep_dict]
        ELSE IF ragged
        THEN [error |-> "ValueError: concatenate", msg_args |-> NoArgs, emb |-> <<>>, rep_dict |-> prim.rep_dict]
        ELSE IF samp.error # ""
        THEN [error |-> samp.error, msg_args |-> samp.msg_args, emb |-> <<>>, rep_dict |-> prim.rep_dict]
        ELSE [error |-> "", msg_args |-> NoArgs, emb |-> Merge(perturb_covar_emb, samp.emb),
              rep_dict |-> prim.rep_dict]

\* --------------------------------------------------------------- discovery
\* a condition as the pd.Series tgt_cond[keys]: column name -> value
CondOf(keys, tup) == [c \in Range(keys) |-> tup[IndexOf(keys, c)]]

\* DataManager._get_split_cov_combs
get_split_cov_combs(m, covariate_data) ==
    IF Len(m.split_covariates) > 0
    THEN SortTuples({Project(covariate_data[i], m.split_covariates) : i \in DOMAIN covariate_data})
    ELSE << <<>> >>

\* DataManager._verify_control_data: TRUE when it raises (no control cell)
verify_control_data_raises(obs) == \A i \in DOMAIN obs : ~obs[i].control

\* the error result of a request
Raised(path, msg, rep_dict) ==
    [ status |-> "error", error |-> msg, msg_args |-> NoArgs, path |-> path,
      split_covariates_mask |-> <<>>, split_idx_to_covariates |-> <<>>,
      perturbation_covariates_mask |-> <<>>, perturbation_idx_to_covariates |-> <<>>,
      condition_data |-> <<>>, control_to_perturbation |-> <<>>,
      max_combination_length |-> 0, rep_dict |-> rep_dict ]

\* np.array(emb) of the per-condition arrays of one group raises when their
\* shapes differ
Inhomogeneous(embs) ==
    \E i, j \in DOMAIN embs :
        Len(embs[i]) # Len(embs[j]) \/ Len(embs[i][1]) # Len(embs[j][1])

\* the assignment made for every row of the split combination, control or not
split_combination_mask_all_rows(m, covariate_data, split_covariates_mask, split_combination, src_counter) ==
    [i \in DOMAIN covariate_data |->
        IF Project(covariate_data[i], m.split_covariates) = split_combination
        THEN src_counter ELSE split_covariates_mask[i]]

\* DataManager._get_split_combination_mask: the mask after the assignment
get_split_combination_mask(m, covariate_data, split_covariates_mask, split_combination, src_counter) ==
    [i \in DOMAIN covariate_data |->
        IF covariate_data[i].control
           /\ Project(covariate_data[i], m.split_covariates) = split_combination
        THEN src_counter ELSE split_covariates_mask[i]]

\* _get_condition_data_old, lines 404-422: the bookkeeping for the condition
\* tgt_cond with rows mask, given the result embedding of
\* _get_perturbation_covariates
OldTargetFound(obs, mask, tgt_cond, st, embedding) ==
    IF embedding.error # ""
    THEN [st EXCEPT !.error = embedding.error, !.msg_args = embedding.msg_args,
                    !.rep_dict = embedding.rep_dict]
    ELSE [st EXCEPT
             !.perturbation_covariates_mask =
                 [i \in DOMAIN obs |-> IF i \in mask THEN st.tgt_counter ELSE @[i]],
             !.conditional_distributions = Append(@, st.tgt_counter),
             !.perturbation_idx_to_covariates = Put(@, st.tgt_counter, tgt_cond),
             !.condition_data = [g \in DOMAIN @ |-> Append(@[g], embedding.emb[g])],
             !.rep_dict = embedding.rep_dict,
             !.tgt_counter = @ + 1]

\* _get_condition_data_old, the body of `for i, tgt_cond in pbar` for one
\* condition of one split combination (adata given)
OldTarget(m, obs, split_combination, tgt_cond, st) ==
    LET mask == {i \in DOMAIN obs :
                    /\ Project(obs[i], m.perturb_covar_keys) = tgt_cond
                    /\ ~obs[i].control
                    /\ Project(obs[i], m.split_covariates) = split_combination}
    IN  IF mask = {} THEN st
        ELSE OldTargetFound(obs, mask, tgt_cond, st,
                 get_perturbation_covariates(m, CondOf(m.perturb_covar_keys, tgt_cond), st.rep_dict))

\* the loop `for i, tgt_cond in pbar` over the conditions conds; an exception
\* ends it
RECURSIVE OldTargets(_, _, _, _, _)
OldTargets(m, obs, split_combination, conds, st) ==
    IF conds = <<>> \/ st.error # "" THEN st
    ELSE OldTargets(m, obs, split_combination, Tail(conds),
                    OldTarget(m, obs, split_combination, Head(conds), st))

\* _get_condition_data_old, line 422: control_to_perturbation[src_counter] and
\* src_counter += 1, after the conditions of the split combination
OldSplitDone(src_counter, st2) ==
    [st2 EXCEPT
        !.control_to_perturbation = Put(@, src_counter, st2.conditional_distributions),
        !.src_counter = @ + 1]

\* _get_condition_data_old, the body of `for split_combination in
\* split_cov_combs`
OldSplit(m, obs, split_combination, st) ==
    LET split_pos == [k \in 1..Len(m.split_covariates) |->
                         IndexOf(m.perturb_covar_keys, m.split_covariates[k])]
        perturb_covar_df == {Project(obs[i], m.perturb_covar_keys) : i \in DOMAIN obs}
        pc_df == SortTuples({c \in perturb_covar_df :
                    [k \in 1..Len(split_pos) |-> c[split_pos[k]]] = split_combination})
        st1 == [st EXCEPT
                   !.split_covariates_mask =
                       get_split_combination_mask(m, obs, @, split_combination, st.src_counter),
                   !.split_idx_to_covariates = Put(@, st.src_counter, split_combination),
                   !.conditional_distributions = <<>>]
    IN  OldSplitDone(st.src_counter, OldTargets(m, obs, split_combination, pc_df, st1))

\* the loop `for split_combination in split_cov_combs`
RECURSIVE OldSplits(_, _, _, _)
OldSplits(m, obs, combs, st) ==
    IF combs = <<>> \/ st.error # "" THEN st
    ELSE OldSplits(m, obs, Tail(combs), OldSplit(m, obs, Head(combs), st))

\* _get_condition_data_old, lines 428-441: the arrays and the ReturnData made
\* from the state st the loops leave
OldReturn(m, groups, st) ==
    IF st.error # "" THEN [Raised("old", st.error, st.rep_dict) EXCEPT !.msg_args = st.msg_args]
    ELSE IF \E g \in groups : Inhomogeneous(st.condition_data[g])
    THEN Raised("old", "ValueError: inhomogeneous shape", st.rep_dict)
    ELSE [ status |-> "ok", error |-> "", msg_args |-> NoArgs, path |-> "old",
           split_covariates_mask |-> st.split_covariates_mask,
           split_idx_to_covariates |-> st.split_idx_to_covariates,
           perturbation_covariates_mask |-> st.perturbation_covariates_mask,
           perturbation_idx_to_covariates |-> st.perturbation_idx_to_covariates,
           condition_data |-> st.condition_data,
           control_to_perturbation |-> st.control_to_perturbation,
           max_combination_length |-> m.max_combination_length,
           rep_dict |-> st.rep_dict ]

\* the loop state of _get_condition_data_old before the first split
OldStart(obs, groups, rep_dict) ==
    [ error |-> "",
      msg_args |-> NoArgs,
      split_covariates_mask |-> [i \in DOMAIN obs |-> -1],
      perturbation_covariates_mask |-> [i \in DOMAIN obs |-> -1],
      condition_data |-> [g \in groups |-> <<>>],
      control_to_perturbation |-> <<>>,
      split_idx_to_covariates |-> <<>>,
      perturbation_idx_to_covariates |-> <<>>,
      conditional_distributions |-> <<>>,
      src_counter |-> 0,
      tgt_counter |-> 0,
      rep_dict |-> rep_dict ]

\* DataManager._get_condition_data_old with adata given
get_condition_data_old(m, obs, rep_dict) ==
    IF verify_control_data_raises(obs)
    THEN Raised("old", "ValueError: no control cells", rep_dict)
    ELSE
    LET groups == IF is_conditional(m) THEN Range(m.covar_to_idx) ELSE {}
    IN  OldReturn(m, groups,
            OldSplits(m, obs, get_split_cov_combs(m, obs), OldStart(obs, groups, rep_dict)))

\* df.drop_duplicates(keep="first") of a sequence of tuples
RECURSIVE DropDuplicates(_)
DropDuplicates(s) ==
    IF s = <<>> THEN <<>>
    ELSE LET r == DropDuplicates(SubSeq(s, 1, Len(s) - 1))
         IN  IF Contains(r, s[Len(s)]) THEN r ELSE Append(r, s[Len(s)])

\* the tables as they are after the conditions conds (a sequence of pd.Series)
\* have each run the in-place part of _get_perturbation_covariates_static
RECURSIVE AfterTasks(_, _, _)
AfterTasks(m, conds, rep_dict) ==
    IF conds = <<>> THEN rep_dict
    ELSE AfterTasks(m, Tail(conds), get_perturbation_covariates(m, Head(conds), rep_dict).rep_dict)

\* TRUE when a task of the vectorized path writes to the tables it reads
TasksWrite(m, rep_dict) ==
    LET primary_group == m.perturbation_covariates[1].group
    IN  /\ ~m.is_categorical
        /\ primary_group \in DOMAIN m.covariate_reps
        /\ \E k \in DOMAIN rep_dict[m.covariate_reps[primary_group]] :
               Aliased(rep_dict[m.covariate_reps[primary_group]][k])

\* dask.compute(*delayed_results) runs the n tasks on a thread pool.  A
\* schedule is the order p in which the tasks do their in-place write, and for
\* each task t the number seen[t] of writes done when the task copies its rows
\* (np.concatenate); its own write is among them.  When no task writes, all
\* schedules give one result and one stands for them.
Schedules(n, writes) ==
    IF ~writes THEN {[p |-> [k \in 1..n |-> k], seen |-> [t \in 1..n |-> t]]}
    ELSE {sc \in [p : Perms(n), seen : [1..n -> 1..n]] :
            \A k \in 1..n : sc.seen[sc.p[k]] >= k}

\* a variant that keeps the results in the order of the tasks
results_in_task_order(tgt_idxs) == [k \in 1..Len(tgt_idxs) |-> k]

\* results = sorted(results, key=lambda x: x[0]): the tasks by increasing
\* condition index; tgt_idxs[t] is the index task t returns
sort_results(tgt_idxs) ==
    LET order == SortTuples({<<tgt_idxs[t], t>> : t \in DOMAIN tgt_idxs})
    IN  [k \in 1..Len(order) |-> order[k][2]]

\* the vectorized body of DataManager._get_condition_data (adata given, all
\* three covariate categories non-empty), under the schedule sched
get_condition_data_vectorized(m, obs, rep_dict, sched) ==
    IF verify_control_data_raises(obs)
    THEN Raised("vectorized", "ValueError: no control cells", rep_dict)
    ELSE
    LET split_covariates == m.sample_covariates
        perturbation_covariates_keys == SeqMinus(m.perturb_covar_keys, split_covariates)
        comb_keys == split_covariates \o perturbation_covariates_keys
        is_control(r) == r.control
        not_control(r) == ~r.control
        control_rows == SelectSeq(obs, is_control)
        target_rows == SelectSeq(obs, not_control)
        control_combs == SortTuples({Project(control_rows[i], split_covariates) : i \in DOMAIN control_rows})
        all_combs == SortTuples({Project(target_rows[i], comb_keys) : i \in DOMAIN target_rows})
        \* the left joins: 0 stands for a missing (NaN) match, k + 1 for index k
        global_control_mask == [i \in DOMAIN obs |-> IndexOf(control_combs, Project(obs[i], split_covariates))]
        global_pert_mask == [i \in DOMAIN obs |-> IndexOf(all_combs, Project(obs[i], comb_keys))]
        split_covariates_mask ==
            [i \in DOMAIN obs |-> IF ~obs[i].control THEN -1 ELSE global_control_mask[i] - 1]
        perturbation_covariates_mask ==
            [i \in DOMAIN obs |-> IF obs[i].control THEN -1 ELSE global_pert_mask[i] - 1]
        split_idx_to_covariates ==
            [k \in {global_control_mask[i] - 1 : i \in {j \in DOMAIN obs : global_control_mask[j] # 0}}
                |-> control_combs[k + 1]]
        ns == Len(split_covariates)
        perturbation_idx_to_covariates ==
            [k \in {global_pert_mask[i] - 1 : i \in {j \in DOMAIN obs : global_pert_mask[j] # 0}}
                |-> SubSeq(all_combs[k + 1], ns + 1, Len(comb_keys)) \o SubSeq(all_combs[k + 1], 1, ns)]
        \* df[~control].groupby("global_control_mask")["global_pert_mask"].unique()
        grouped == {i \in DOMAIN obs : ~obs[i].control /\ global_control_mask[i] # 0}
        control_to_perturbation ==
            [k \in {global_control_mask[i] - 1 : i \in grouped} |->
                LET idx == SortTuples({<<global_pert_mask[i] - 1>> :
                                i \in {j \in grouped : global_control_mask[j] - 1 = k}})
                IN  [q \in 1..Len(idx) |-> idx[q][1]]]
        \* the delayed tasks, in the order of perturb_covar_df.iterrows()
        perturb_covar_df == DropDuplicates([i \in DOMAIN target_rows |-> Project(target_rows[i], comb_keys)])
        n == Len(perturb_covar_df)
        tgt_cond(t) == [c \in Range(m.perturb_covar_keys) |->
                           perturb_covar_df[t][IndexOf(comb_keys, c)]]
        tgt_idx(t) == IndexOf(all_combs, perturb_covar_df[t]) - 1
        \* the tasks whose write task t has seen when it copies, besides its own
        before(t) == SelectSeq([k \in 1..sched.seen[t] |-> sched.p[k]], LAMBDA u : u # t)
        result(t) == get_perturbation_covariates(m, tgt_cond(t),
                         AfterTasks(m, [k \in 1..Len(before(t)) |-> tgt_cond(before(t)[k])], rep_dict))
        failed == {t \in 1..n : result(t).error # ""}
        rep_after == AfterTasks(m, [t \in 1..n |-> tgt_cond(t)], rep_dict)
        \* results = sorted(results, key=lambda x: x[0])
        by_idx == sort_results([t \in 1..n |-> tgt_idx(t)])
        groups == Range(m.covar_to_idx)
        condition_data == [g \in groups |-> [k \in 1..n |-> result(by_idx[k]).emb[g]]]
    IN  IF failed # {}
        THEN LET raised == result(CHOOSE t \in failed : TRUE)
             IN  [Raised("vectorized", raised.error, rep_after) EXCEPT !.msg_args = raised.msg_args]
        ELSE IF \E g \in groups : Inhomogeneous(condition_data[g])
        THEN Raised("vectorized", "ValueError: inhomogeneous shape", rep_after)
        ELSE [ status |-> "ok", error |-> "", msg_args |-> NoArgs, path |-> "vectorized",
               split_covariates_mask |-> split_covariates_mask,
               split_idx_to_covariates |-> split_idx_to_covariates,
               perturbation_covariates_mask |-> perturbation_covariates_mask,
               perturbation_idx_to_covariates |-> perturbation_idx_to_covariates,
               condition_data |-> condition_data,
               control_to_perturbation |-> control_to_perturbation,
               max_combination_length |-> m.max_combination_length,
               rep_dict |-> rep_after ]

\* a variant that always delegates to the iterative strategy
get_condition_data_always_old(m, obs, rep_dict, sched) ==
    get_condition_data_old(m, obs, rep_dict)

\* DataManager._get_condition_data with adata given: the choice of strategy
get_condition_data(m, obs, rep_dict, sched) ==
    IF \/ Len(m.split_covariates) = 0
       \/ Len(m.perturbation_covariates) = 0
       \/ Len(m.sample_covariates) = 0
       \/ ~is_conditional(m)
    THEN get_condition_data_old(m, obs, rep_dict)
    ELSE get_condition_data_vectorized(m, obs, rep_dict, sched)

\* TRUE when _get_condition_data takes the vectorized path
Vectorized(m) ==
    /\ Len(m.split_covariates) > 0
    /\ Len(m.perturbation_covariates) > 0
    /\ Len(m.sample_covariates) > 0

\* -------------------------------------------------------------- prediction
\* a variant that looks for the column only
verify_condition_id_key_column_only(covariate_data, condition_id_key) ==
    IF condition_id_key = "missing" THEN "ValueError: condition_id_key not found" ELSE ""

\* DataManager._verify_condition_id_key: the error it raises, "" for none.
\* The column "id" is in the table, the column "missing" is not; the second
\* test compares the number of distinct ids with the number of rows.
verify_condition_id_key(covariate_data, condition_id_key) ==
    IF condition_id_key = "missing" THEN "ValueError: condition_id_key not found"
    ELSE IF Cardinality({covariate_data[i].id : i \in DOMAIN covariate_data}) # Len(covariate_data)
    THEN "ValueError: condition_id_key not unique"
    ELSE ""

\* _get_condition_data_old, lines 325-334: perturb_covar_df as a sequence of
\* <<condition, index>>.  With a condition id column the rows are distinct
\* in (condition, id) and the index is the id; without one the rows are
\* distinct in the condition and the index is 0, 1, ... after reset_index()
perturb_covar_df(m, covariate_data, condition_id_key) ==
    IF condition_id_key = "none"
    THEN LET d == DropDuplicates([i \in DOMAIN covariate_data |->
                      Project(covariate_data[i], m.perturb_covar_keys)])
         IN  [k \in DOMAIN d |-> <<d[k], k - 1>>]
    ELSE DropDuplicates([i \in DOMAIN covariate_data |->
             <<Project(covariate_data[i], m.perturb_covar_keys), covariate_data[i].id>>])

\* df.sort_values(by=perturb_covar_keys) of the rows <<condition, index>>:
\* ascending in the condition, rows of one condition in their order
RECURSIVE SortByCondition(_)
SortByCondition(df) ==
    IF df = <<>> THEN <<>>
    ELSE LET sorted == SortByCondition(SubSeq(df, 1, Len(df) - 1))
             last == df[Len(df)]
             before == SelectSeq(sorted, LAMBDA r : ~LexLess(last[1], r[1]))
             after == SelectSeq(sorted, LAMBDA r : LexLess(last[1], r[1]))
         IN  before \o <<last>> \o after

\* _get_condition_data_old with adata None, lines 404-422: the bookkeeping of
\* one row <<tgt_cond, i>> of pc_df, given the result of
\* _get_perturbation_covariates
PredTargetFound(row, condition_id_key, st, embedding) ==
    IF embedding.error # ""
    THEN [st EXCEPT !.error = embedding.error, !.rep_dict = embedding.rep_dict]
    ELSE [st EXCEPT
             !.conditional_distributions = Append(@, st.tgt_counter),
             !.perturbation_idx_to_covariates = Put(@, st.tgt_counter, row[1]),
             !.perturbation_idx_to_id =
                 IF condition_id_key # "none" THEN Put(@, st.tgt_counter, row[2]) ELSE @,
             !.condition_data = [g \in DOMAIN @ |-> Append(@[g], embedding.emb[g])],
             !.rep_dict = embedding.rep_dict,
             !.tgt_counter = @ + 1]

\* the loop `for i, tgt_cond in pbar` with adata None
RECURSIVE PredTargets(_, _, _, _)
PredTargets(m, rows, condition_id_key, st) ==
    IF rows = <<>> \/ st.error # "" THEN st
    ELSE PredTargets(m, Tail(rows), condition_id_key,
             PredTargetFound(Head(rows), condition_id_key, st,
                 get_perturbation_covariates(m, CondOf(m.perturb_covar_keys, Head(rows)[1]), st.rep_dict)))

\* the body of `for split_combination in split_cov_combs` with adata None
PredSplit(m, df, condition_id_key, split_combination, st) ==
    LET split_pos == [k \in 1..Len(m.split_covariates) |->
                         IndexOf(m.perturb_covar_keys, m.split_covariates[k])]
        pc_df == SortByCondition(SelectSeq(df, LAMBDA r :
                    [k \in 1..Len(split_pos) |-> r[1][split_pos[k]]] = split_combination))
    IN  OldSplitDone(st.src_counter,
            PredTargets(m, pc_df, condition_id_key, [st EXCEPT !.conditional_distributions = <<>>]))

RECURSIVE PredSplits(_, _, _, _, _)
PredSplits(m, df, condition_id_key, combs, st) ==
    IF combs = <<>> \/ st.error # "" THEN st
    ELSE PredSplits(m, df, condition_id_key, Tail(combs),
                    PredSplit(m, df, condition_id_key, Head(combs), st))

\* a result of the prediction calls that is an exception
PredRaised(msg) ==
    [ error |-> msg, cell_data |-> <<>>, split_covariates_mask |-> <<>>,
      split_idx_to_covariates |-> <<>>, condition_data |-> <<>>,
      control_to_perturbation |-> <<>>, perturbation_idx_to_covariates |-> <<>>,
      perturbation_idx_to_id |-> <<>>, max_combination_length |-> 0 ]

\* the ReturnData of _get_condition_data_old with adata None, from the state
\* the loops leave
PredReturn(m, groups, st) ==
    IF st.error # "" THEN PredRaised(st.error)
    ELSE IF \E g \in groups : Inhomogeneous(st.condition_data[g])
    THEN PredRaised("ValueError: inhomogeneous shape")
    ELSE [ PredRaised("") EXCEPT
             !.condition_data = st.condition_data,
             !.control_to_perturbation = st.control_to_perturbation,
             !.perturbation_idx_to_covariates = st.perturbation_idx_to_covariates,
             !.perturbation_idx_to_id = st.perturbation_idx_to_id,
             !.max_combination_length = m.max_combination_length ]

\* the loop state of _get_condition_data_old before the first split, adata None
PredStart(groups, rep_dict) ==
    [ error |-> "",
      condition_data |-> [g \in groups |-> <<>>],
      control_to_perturbation |-> <<>>,
      perturbation_idx_to_covariates |-> <<>>,
      perturbation_idx_to_id |-> <<>>,
      conditional_distributions |-> <<>>,
      src_counter |-> 0,
      tgt_counter |-> 0,
      rep_dict |-> rep_dict ]

\* DataManager._get_condition_data with adata None: always the old path
get_condition_data_none(m, covariate_data, rep_dict, condition_id_key) ==
    LET groups == IF is_conditional(m) THEN Range(m.covar_to_idx) ELSE {}
        id_error == IF condition_id_key = "none" THEN ""
                    ELSE verify_condition_id_key(covariate_data, condition_id_key)
    IN  IF id_error # "" THEN PredRaised(id_error)
        ELSE PredReturn(m, groups,
                 PredSplits(m, perturb_covar_df(m, covariate_data, condition_id_key), condition_id_key,
                            get_split_cov_combs(m, covariate_data), PredStart(groups, rep_dict)))

\* a variant that reads the representation named by the argument
get_cell_data_of_argument(m, ad, sample_rep) ==
    IF sample_rep = "X" THEN [error |-> "", arr |-> ad.X]
    ELSE IF sample_rep \notin DOMAIN ad.obsm THEN [error |-> "KeyError", arr |-> <<>>]
    ELSE [error |-> "", arr |-> ad.obsm[sample_rep]]

\* DataManager._get_cell_data(adata, sample_rep) with a string argument; the
\* manager's own sample_rep is [kind |-> "str", key] or [kind |-> "dict", ...]
get_cell_data(m, ad, sample_rep) ==
    IF sample_rep = "X" THEN [error |-> "", arr |-> ad.X]
    ELSE IF m.sample_rep.kind = "str"
    THEN IF m.sample_rep.key \notin DOMAIN ad.obsm
         THEN [error |-> "KeyError", arr |-> <<>>]
         ELSE [error |-> "", arr |-> ad.obsm[m.sample_rep.key]]
    \* next(iter(sample_rep.items())) on the string argument
    ELSE [error |-> "AttributeError", arr |-> <<>>]

\* DataManager._verify_prediction_data: TRUE when it raises
verify_prediction_data_raises(ad) == \E i \in DOMAIN ad.obs : ~ad.obs[i].control

\* a variant that gives a split combination without cells a source index
RECURSIVE split_covariates_mask_unchecked(_, _, _, _)
split_covariates_mask_unchecked(m, obs, combs, st) ==
    IF Len(m.split_covariates) = 0
    THEN [error |-> "", mask |-> [i \in DOMAIN obs |-> 0], split_idx_to_covariates |-> <<>>, src_counter |-> 0]
    ELSE IF combs = <<>> THEN st
    ELSE split_covariates_mask_unchecked(m, obs, Tail(combs),
             [st EXCEPT !.mask = [i \in DOMAIN obs |->
                                    IF Project(obs[i], m.split_covariates) = Head(combs)
                                    THEN st.src_counter ELSE @[i]],
                        !.split_idx_to_covariates = Put(@, st.src_counter, Head(combs)),
                        !.src_counter = @ + 1])

\* DataManager._get_split_covariates_mask: [error, mask, split_idx_to_covariates]
RECURSIVE get_split_covariates_mask(_, _, _, _)
get_split_covariates_mask(m, obs, combs, st) ==
    IF Len(m.split_covariates) = 0
    THEN [error |-> "", mask |-> [i \in DOMAIN obs |-> 0], split_idx_to_covariates |-> <<>>, src_counter |-> 0]
    ELSE IF combs = <<>> \/ st.error # "" THEN st
    ELSE LET hit == {i \in DOMAIN obs : Project(obs[i], m.split_covariates) = Head(combs)}
         IN  IF \A i \in hit : st.mask[i] = st.src_counter
             THEN [st EXCEPT !.error = "ValueError: no cells for split"]
             ELSE get_split_covariates_mask(m, obs, Tail(combs),
                      [st EXCEPT !.mask = [i \in DOMAIN obs |-> IF i \in hit THEN st.src_counter ELSE @[i]],
                                 !.split_idx_to_covariates = Put(@, st.src_counter, Head(combs)),
                                 !.src_counter = @ + 1])

\* the PredictionData made of the three parts, or the first exception
PredictionData(cond_data, cell_data, masks) ==
    IF cond_data.error # "" THEN cond_data
    ELSE IF cell_data.error # "" THEN PredRaised(cell_data.error)
    ELSE IF masks.error # "" THEN PredRaised(masks.error)
    ELSE [cond_data EXCEPT !.cell_data = cell_data.arr,
                           !.split_covariates_mask = masks.mask,
                           !.split_idx_to_covariates = masks.split_idx_to_covariates]

\* DataManager.get_prediction_data(adata, sample_rep, covariate_data,
\* condition_id_key=...), rep_dict taken from adata.uns
get_prediction_data(m, ad, sample_rep, covariate_data, condition_id_key) ==
    IF verify_prediction_data_raises(ad) THEN PredRaised("ValueError: not all control")
    ELSE PredictionData(
             get_condition_data_none(m, covariate_data, ad.uns, condition_id_key),
             get_cell_data(m, ad, sample_rep),
             get_split_covariates_mask(m, ad.obs, get_split_cov_combs(m, covariate_data),
                 [error |-> "", mask |-> [i \in DOMAIN ad.obs |-> -1],
                  split_idx_to_covariates |-> <<>>, src_counter |-> 0]))

\* ------------------------------------------------------------------ inputs
DrugGroup == << [group |-> "drug", covars |-> <<"drug">>] >>

NoReps == <<>>

\* adata.uns["drug_emb"] for a numeric primary group: keyed by column name
DoseTable == ("drug" :> [kind |-> "ndarray", val |-> <<1, 2>>])

\* adata.uns["drug_emb"] for a categorical primary group: keyed by value;
\* the two stored vectors have different lengths
DrugTable == (1 :> [kind |-> "list", val |-> <<1>>]) @@ (2 :> [kind |-> "list", val |-> <<1, 2>>])

\* adata.uns["cl_emb"]: keyed by cell line
CellLineTable == (1 :> [kind |-> "ndarray", val |-> <<1, 2>>]) @@ (2 :> [kind |-> "ndarray", val |-> <<2, 1>>])

\* the constructor arguments the model draws from; max_combination_length 0
\* stands for None, split_covariates <<>> for None
Configs ==
    { [ split_covariates |-> <<>>, sample_covariates |-> <<>>,
        perturbation_covariates |-> DrugGroup, dtype |-> "category",
        varying |-> {"drug"},
        perturbation_covariate_reps |-> NoReps, sample_covariate_reps |-> NoReps,
        max_combination_length |-> 0, null_value |-> 0, sample_rep |-> XRep, uns |-> <<>> ],
      [ split_covariates |-> <<"batch">>, sample_covariates |-> <<>>,
        perturbation_covariates |-> DrugGroup, dtype |-> "numeric",
        varying |-> {"drug", "batch"},
        perturbation_covariate_reps |-> [drug |-> "drug_emb"], sample_covariate_reps |-> NoReps,
        max_combination_length |-> 2, null_value |-> 0, sample_rep |-> XRep, uns |-> [drug_emb |-> DoseTable] ],
      [ split_covariates |-> <<"batch">>, sample_covariates |-> <<"cell_line">>,
        perturbation_covariates |-> DrugGroup, dtype |-> "category",
        varying |-> {"batch", "cell_line"},
        perturbation_covariate_reps |-> NoReps, sample_covariate_reps |-> NoReps,
        max_combination_length |-> 0, null_value |-> 0, sample_rep |-> XRep, uns |-> <<>> ],
      [ split_covariates |-> <<"cell_line">>, sample_covariates |-> <<"cell_line">>,
        perturbation_covariates |-> DrugGroup, dtype |-> "numeric",
        varying |-> {"drug", "cell_line"},
        perturbation_covariate_reps |-> [drug |-> "drug_emb"],
        sample_covariate_reps |-> [cell_line |-> "cl_emb"],
        max_combination_length |-> 2, null_value |-> 0, sample_rep |-> XRep,
        uns |-> [drug_emb |-> DoseTable, cl_emb |-> CellLineTable] ],
      [ split_covariates |-> <<>>, sample_covariates |-> <<"cell_line">>,
        perturbation_covariates |-> DrugGroup, dtype |-> "category",
        varying |-> {"drug", "cell_line"},
        perturbation_covariate_reps |-> [drug |-> "drug_emb"], sample_covariate_reps |-> NoReps,
        max_combination_length |-> 0, null_value |-> 0, sample_rep |-> XRep, uns |-> [drug_emb |-> DrugTable] ],
      [ split_covariates |-> <<>>, sample_covariates |-> <<>>,
        perturbation_covariates |-> DrugGroup, dtype |-> "numeric",
        varying |-> {"drug"},
        perturbation_covariate_reps |-> NoReps, sample_covariate_reps |-> NoReps,
        max_combination_length |-> 2, null_value |-> 0, sample_rep |-> XRep, uns |-> <<>> ] }

\* a primary group of two columns
TwoDrugGroup == << [group |-> "drug", covars |-> <<"drug", "drug2">>] >>

\* adata.uns["cl_emb"] without an entry for cell line 2
PartialCellLineTable == (1 :> [kind |-> "ndarray", val |-> <<1, 2>>])

\* further constructor arguments: a sample representation table that lacks a
\* key, and a primary group of two columns without representation, numeric
\* and categorical
Configs2 ==
    { [ split_covariates |-> <<>>, sample_covariates |-> <<"cell_line">>,
        perturbation_covariates |-> DrugGroup, dtype |-> "category",
        varying |-> {"cell_line"},
        perturbation_covariate_reps |-> NoReps, sample_covariate_reps |-> [cell_line |-> "cl_emb"],
        max_combination_length |-> 0, null_value |-> 0, sample_rep |-> XRep, uns |-> [cl_emb |-> PartialCellLineTable] ],
      [ split_covariates |-> <<>>, sample_covariates |-> <<>>,
        perturbation_covariates |-> TwoDrugGroup, dtype |-> "numeric",
        varying |-> {"drug", "drug2"},
        perturbation_covariate_reps |-> NoReps, sample_covariate_reps |-> NoReps,
        max_combination_length |-> 0, null_value |-> 0, sample_rep |-> XRep, uns |-> <<>> ],
      [ split_covariates |-> <<>>, sample_covariates |-> <<>>,
        perturbation_covariates |-> TwoDrugGroup, dtype |-> "numeric",
        varying |-> {"drug2"},
        perturbation_covariate_reps |-> NoReps, sample_covariate_reps |-> NoReps,
        max_combination_length |-> 1, null_value |-> 0, sample_rep |-> XRep, uns |-> <<>> ],
      [ split_covariates |-> <<>>, sample_covariates |-> <<>>,
        perturbation_covariates |-> TwoDrugGroup, dtype |-> "numeric",
        varying |-> {"drug2"},
        perturbation_covariate_reps |-> NoReps, sample_covariate_reps |-> NoReps,
        max_combination_length |-> 3, null_value |-> 0, sample_rep |-> XRep, uns |-> <<>> ],
      [ split_covariates |-> <<>>, sample_covariates |-> <<>>,
        perturbation_covariates |-> TwoDrugGroup, dtype |-> "category",
        varying |-> {"drug", "drug2"},
        perturbation_covariate_reps |-> NoReps, sample_covariate_reps |-> NoReps,
        max_combination_length |-> 0, null_value |-> 0, sample_rep |-> XRep, uns |-> <<>> ] }

\* the rows of a table for a configuration: a column outside cfg.varying
\* (the columns the configuration does not read, among them) is 1
RowsOf(cfg) ==
    {r \in [control : BOOLEAN, batch : ColVals, cell_line : ColVals, drug : ColVals, drug2 : ColVals] :
        \A c \in {"batch", "cell_line", "drug", "drug2"} \ cfg.varying : r[c] = 1}

Tables(cfg) == UNION {[1..n -> RowsOf(cfg)] : n \in 1..MaxCells}

NoRequest == [kind |-> "none", obs |-> <<>>, rep_dict |-> <<>>]

NoCall == [op |-> "none"]

\* no _pad_to_max_length call yet; first_rows is the row count of the array
\* before any padding, padded tells that arr is a result of the function
NoPad == [arr |-> <<>>, max_combination_length |-> 0, null_value |-> 0,
          padded |-> FALSE, first_rows |-> 0]

\* the ReturnData of a result
Bundle(r) ==
    [ status |-> r.status, error |-> r.error, msg_args |-> r.msg_args, path |-> r.path,
      split_covariates_mask |-> r.split_covariates_mask,
      split_idx_to_covariates |-> r.split_idx_to_covariates,
      perturbation_covariates_mask |-> r.perturbation_covariates_mask,
      perturbation_idx_to_covariates |-> r.perturbation_idx_to_covariates,
      condition_data |-> r.condition_data,
      control_to_perturbation |-> r.control_to_perturbation,
      max_combination_length |-> r.max_combination_length ]

NoResult == Bundle(Raised("none", "", <<>>))

\* ----------------------------------------------------------- specification
\* the state after DataManager(adata, ...) has returned a manager
Constructed(cfgs) ==
    \E cfg \in cfgs :
        \E obs \in Tables(cfg) :
            /\ ~verify_split_covariates_raises(obs, cfg.split_covariates)
            /\ adata = obs
            /\ uns = cfg.uns
            /\ dm = DataManagerInit(obs, cfg)
            /\ req = NoRequest
            /\ ret = [NoResult EXCEPT !.status = "none"]
            /\ padIn = NoPad
            /\ padOut = <<>>
            /\ call = NoCall

Init == Constructed(Configs)

\* the state after DataManager(adata, ...) with the further arguments
Init2 == Constructed(Configs2)

\* the number of conditions the vectorized path makes tasks for
NumTasks(obs) == Cardinality({Project(obs[i], dm.perturb_covar_keys) :
                                 i \in {j \in DOMAIN obs : ~obs[j].control}})

\* TRUE when no stored representation entry exceeds n
StoredAtMost(rep_dict, n) ==
    \A t \in DOMAIN rep_dict : \A k \in DOMAIN rep_dict[t] :
        \A q \in DOMAIN rep_dict[t][k].val : rep_dict[t][k].val[q] <= n

\* a variant that fits the primary encoder again, on the table of the request
ManagerRefitted(m, obs) ==
    [m EXCEPT !.primary_one_hot_encoder =
        get_primary_covar_encoder(obs, m.perturbation_covariates, m.covariate_reps,
                                  IF m.is_categorical THEN "category" ELSE "numeric")]

\* the manager's attributes after a get_*_data call on the table obs: the
\* calls read self._primary_one_hot_encoder, self._is_categorical and the
\* other attributes and assign none of them
ManagerAfter(m, obs) == m

\* one request for a bundle over the table obs
Request(kind, obs) ==
    /\ StoredAtMost(uns, MaxStored)
    /\ \E sched \in Schedules(NumTasks(obs), Vectorized(dm) /\ TasksWrite(dm, uns)) :
          \E r \in {get_condition_data(dm, obs, uns, sched)} :
              /\ ret' = Bundle(r)
              /\ uns' = r.rep_dict
    /\ req' = [kind |-> kind, obs |-> obs, rep_dict |-> uns]
    /\ dm' = ManagerAfter(dm, obs)
    /\ UNCHANGED <<adata, padIn, padOut, call>>

\* DataManager.get_train_data(adata) on the table the manager was built on
GetTrainData == Request("train", adata)

\* DataManager.get_validation_data(adata) on a held-out tail of the table
GetValidationData ==
    \E k \in 2..Len(adata) : Request("validation", SubSeq(adata, k, Len(adata)))

Next == GetTrainData \/ GetValidationData

Spec == Init /\ [][Next]_vars

Spec2 == Init2 /\ [][Next]_vars

\* --------------------------------------------- _pad_to_max_length alone
PadArrays == UNION {[1..r -> [1..w -> PadVals]] : r \in 1..MaxPadRows, w \in 1..MaxPadWidth}

PadInit ==
    /\ \E arr \in PadArrays, n \in 1..MaxPadLen, null_value \in NullVals :
          padIn = [arr |-> arr, max_combination_length |-> n, null_value |-> null_value,
                   padded |-> FALSE, first_rows |-> Len(arr)]
    /\ padOut = <<>>
    /\ adata = <<>>
    /\ uns = <<>>
    /\ dm = <<>>
    /\ req = NoRequest
    /\ ret = [NoResult EXCEPT !.status = "none"]
    /\ call = NoCall

\* _pad_to_max_length(arr, max_combination_length, null_value)
PadCall ==
    /\ padOut = <<>>
    /\ padOut' = pad_to_max_length(padIn.arr, padIn.max_combination_length, padIn.null_value)
    /\ UNCHANGED <<adata, uns, dm, req, ret, padIn, call>>

\* _pad_to_max_length applied to the array the previous call returned
PadAgain ==
    /\ padOut # <<>>
    /\ ~padIn.padded
    /\ padIn' = [padIn EXCEPT !.arr = padOut, !.padded = TRUE]
    /\ padOut' = pad_to_max_length(padOut, padIn.max_combination_length, padIn.null_value)
    /\ UNCHANGED <<adata, uns, dm, req, ret, call>>

PadNext == PadCall \/ PadAgain

SpecPad == PadInit /\ [][PadNext]_vars

\* ---------------------------------------------------- the constructor alone
\* the perturbation_covariates arguments: None, an empty dict, a primary group
\* "drug" alone or followed by a group "dose", each of zero to two columns
NewGroups ==
    LET Drugs == {<<>>, <<"drug">>, <<"drug", "drug2">>}
        Doses == {<<>>, <<"dose">>, <<"dose", "dose2">>}
    IN       {[given |-> FALSE, groups |-> <<>>], [given |-> TRUE, groups |-> <<>>]}
        \cup {[given |-> TRUE, groups |-> << [group |-> "drug", covars |-> d] >>] : d \in Drugs}
        \cup {[given |-> TRUE, groups |-> << [group |-> "drug", covars |-> d],
                                              [group |-> "dose", covars |-> e] >>] : d \in Drugs, e \in Doses}

\* the max_combination_length arguments; 0 stands for None
NewLens == {0, 1, 3}

NewArgs ==
    [ perturbation_covariates : NewGroups,
      dtypes : [{"drug", "drug2", "dose", "dose2"} -> {"category", "numeric"}],
      max_combination_length : NewLens,
      split_covariates : {<<>>, <<"batch">>},
      obs : UNION {[1..n -> RowsOf([varying |-> {"batch"}])] : n \in 1..MaxNewCells} ]

NewInit ==
    /\ \E args \in NewArgs : call = [op |-> "DataManager", args |-> args, done |-> FALSE, error |-> "",
                                       linked_perturb_covars |-> <<>>]
    /\ padIn = NoPad
    /\ padOut = <<>>
    /\ adata = <<>>
    /\ uns = <<>>
    /\ dm = <<>>
    /\ req = NoRequest
    /\ ret = [NoResult EXCEPT !.status = "none"]

\* DataManager(adata, ...)
New ==
    /\ call.op = "DataManager"
    /\ ~call.done
    /\ \E out \in {DataManagerNew(call.args)} :
          /\ call' = [call EXCEPT !.done = TRUE, !.error = out.error,
                                   !.linked_perturb_covars = out.linked_perturb_covars]
          /\ dm' = out.manager
          /\ adata' = IF out.error = "" THEN call.args.obs ELSE adata
    /\ UNCHANGED <<uns, req, ret, padIn, padOut>>

SpecNew == NewInit /\ [][New]_vars

\* ------------------------------------------------------ prediction calls
\* the sample_rep arguments of the constructor
SampleReps == {XRep, [kind |-> "str", key |-> "X_pca"], [kind |-> "dict", attr |-> "obsm", key |-> "X_pca"]}

\* managers of a numeric primary group "drug" without representation tables,
\* with and without the split covariate "batch", for each sample_rep
PredConfigs ==
    { [ split_covariates |-> sc, sample_covariates |-> <<>>,
        perturbation_covariates |-> DrugGroup, dtype |-> "numeric",
        varying |-> {},
        perturbation_covariate_reps |-> NoReps, sample_covariate_reps |-> NoReps,
        max_combination_length |-> 0, null_value |-> 0, sample_rep |-> sr, uns |-> <<>> ] :
      sc \in {<<>>, <<"batch">>}, sr \in SampleReps }

\* the covariate_data tables: one row per line, with a column "id"
PredTables ==
    UNION {[1..n -> [drug : ColVals, batch : ColVals, id : ColVals]] : n \in 1..MaxPredRows}

\* the adata of a prediction call: X has one feature per cell, obsm["X_pca"]
\* (if present) two and obsm["X_umap"] three
PredAdatas ==
    LET Cells == {[control |-> TRUE, batch |-> 1], [control |-> TRUE, batch |-> 2],
                  [control |-> FALSE, batch |-> 1]}
        Obsm(n) == { ("X_pca" :> [i \in 1..n |-> <<i, i>>]) @@ ("X_umap" :> [i \in 1..n |-> <<i, i, i>>]),
                     ("X_umap" :> [i \in 1..n |-> <<i, i, i>>]) }
    IN  UNION {[obs : [1..n -> Cells], X : {[i \in 1..n |-> <<i>>]}, obsm : Obsm(n), uns : {<<>>}] :
                  n \in 1..MaxPredCells}

InitPred == Constructed(PredConfigs)

\* DataManager.get_prediction_data(adata, sample_rep, covariate_data,
\* condition_id_key=...) on a covariate table whose ids are the row numbers
GetPredictionData ==
    /\ call.op = "none"
    /\ \E ad \in PredAdatas, sample_rep \in {"X", "X_pca", "X_umap"},
          covariate_data \in {t \in PredTables : \A i \in DOMAIN t : t[i].id = i}, condition_id_key \in {"none", "id"} :
          /\ call' = [op |-> "get_prediction_data", ad |-> ad, sample_rep |-> sample_rep,
                      covariate_data |-> covariate_data, condition_id_key |-> condition_id_key,
                      out |-> get_prediction_data(dm, ad, sample_rep, covariate_data, condition_id_key)]
          /\ dm' = ManagerAfter(dm, covariate_data)
    /\ UNCHANGED <<adata, uns, req, ret, padIn, padOut>>

\* DataManager.get_condition_data(covariate_data, condition_id_key=...)
GetConditionData ==
    /\ call.op = "none"
    /\ \E covariate_data \in PredTables, condition_id_key \in {"none", "id", "missing"} :
          /\ call' = [op |-> "get_condition_data", ad |-> <<>>, sample_rep |-> "",
                      covariate_data |-> covariate_data, condition_id_key |-> condition_id_key,
                      out |-> get_condition_data_none(dm, covariate_data, <<>>, condition_id_key)]
          /\ dm' = ManagerAfter(dm, covariate_data)
    /\ UNCHANGED <<adata, uns, req, ret, padIn, padOut>>

NextPred == GetPredictionData \/ GetConditionData

SpecPred == InitPred /\ [][NextPred]_vars

\* ------------------------------------------------------------ callbacks
\* the metrics a computation callback returns from on_log_iteration
Metrics == {("a" :> 1), ("a" :> 2), ("b" :> 1)}

\* the callbacks: a computation callback returns `results` from
\* on_log_iteration and `end_results` from on_train_end; a logging callback
\* returns nothing
Callbacks ==
    [kind : {"computation"}, results : Metrics, end_results : {("end" :> 1)}]
      \cup [kind : {"logging"}, results : {<<>>}, end_results : {<<>>}]

\* the positions in callbacks of the instances of a class, in list order
InstancesOf(callbacks, kind) ==
    SelectSeq([i \in DOMAIN callbacks |-> i], LAMBDA i : callbacks[i].kind = kind)

\* 0 & n of Python, for a length n
ZeroAnd(n) == 0

\* CallbackRunner.__init__: `len(computation_callbacks) == 0 &
\* len(logging_callbacks) != 0` is the chained comparison
\* len(c) == (0 & len(l)) and (0 & len(l)) != 0
CallbackRunnerInit(callbacks) ==
    LET computation_callbacks == InstancesOf(callbacks, "computation")
        logging_callbacks == InstancesOf(callbacks, "logging")
    IN  IF /\ Len(computation_callbacks) = ZeroAnd(Len(logging_callbacks))
           /\ ZeroAnd(Len(logging_callbacks)) # 0
        THEN [error |-> "ValueError: no computation callbacks",
              computation_callbacks |-> <<>>, logging_callbacks |-> <<>>]
        ELSE [error |-> "", computation_callbacks |-> computation_callbacks,
              logging_callbacks |-> logging_callbacks]

\* a variant of dict.update that keeps the value a key already has
update_keep_first(dict_to_log, results) == dict_to_log @@ results

\* dict_to_log.update(results)
update(dict_to_log, results) == results @@ dict_to_log

\* `for callback in self.computation_callbacks: results =
\* callback.on_log_iteration(valid_data, pred_data);
\* dict_to_log.update(results)`: st = [events, dict_to_log]
RECURSIVE ComputationLoop(_, _, _)
ComputationLoop(callbacks, todo, st) ==
    IF todo = <<>> THEN st
    ELSE ComputationLoop(callbacks, Tail(todo),
             [events |-> Append(st.events, [callback |-> Head(todo), hook |-> "on_log_iteration", arg |-> "data"]),
              dict_to_log |-> update(st.dict_to_log, callbacks[Head(todo)].results)])

\* `for callback in self.logging_callbacks:
\* callback.on_log_iteration(dict_to_log)`
RECURSIVE LoggingLoop(_, _)
LoggingLoop(todo, st) ==
    IF todo = <<>> THEN st
    ELSE LoggingLoop(Tail(todo),
             [st EXCEPT !.events = Append(@, [callback |-> Head(todo), hook |-> "on_log_iteration",
                                              arg |-> st.dict_to_log])])

\* CallbackRunner.on_log_iteration(valid_data, pred_data): the hooks it
\* calls, in order, and the dictionary it returns
on_log_iteration(callbacks, runner) ==
    LoggingLoop(runner.logging_callbacks,
        ComputationLoop(callbacks, runner.computation_callbacks, [events |-> <<>>, dict_to_log |-> <<>>]))

\* CallbackRunner.on_train_end(valid_data, pred_data): its body is the body
\* of on_log_iteration, calling the on_log_iteration hooks
on_train_end(callbacks, runner) ==
    LoggingLoop(runner.logging_callbacks,
        ComputationLoop(callbacks, runner.computation_callbacks, [events |-> <<>>, dict_to_log |-> <<>>]))

\* CallbackRunner.on_train_begin(): on_train_begin of the computation
\* callbacks, then of the logging callbacks
on_train_begin(callbacks, runner) ==
    [events |-> [k \in 1..(Len(runner.computation_callbacks) + Len(runner.logging_callbacks)) |->
                    [callback |-> (runner.computation_callbacks \o runner.logging_callbacks)[k],
                     hook |-> "on_train_begin", arg |-> "none"]],
     dict_to_log |-> <<>>]

RunnerInit ==
    /\ \E n \in 0..MaxCallbacks : \E callbacks \in [1..n -> Callbacks] :
          call = [op |-> "CallbackRunner", callbacks |-> callbacks, constructed |-> FALSE,
                  error |-> "", computation_callbacks |-> <<>>, logging_callbacks |-> <<>>,
                  calls |-> 0, last |-> "none", events |-> <<>>, out |-> <<>>]
    /\ padIn = NoPad
    /\ padOut = <<>>
    /\ adata = <<>>
    /\ uns = <<>>
    /\ dm = <<>>
    /\ req = NoRequest
    /\ ret = [NoResult EXCEPT !.status = "none"]

\* CallbackRunner(callbacks)
RunnerNew ==
    /\ call.op = "CallbackRunner"
    /\ ~call.constructed
    /\ call.error = ""
    /\ \E r \in {CallbackRunnerInit(call.callbacks)} :
          call' = [call EXCEPT !.constructed = (r.error = ""), !.error = r.error,
                               !.computation_callbacks = r.computation_callbacks,
                               !.logging_callbacks = r.logging_callbacks]
    /\ UNCHANGED <<adata, uns, dm, req, ret, padIn, padOut>>

\* one call of a hook of the runner: last is the hook, events the callback
\* hooks it called, out what it returned
RunnerCall(hook, r) ==
    /\ call.op = "CallbackRunner"
    /\ call.constructed
    /\ call.calls < MaxRunnerCalls
    /\ call' = [call EXCEPT !.calls = @ + 1, !.last = hook, !.events = r.events, !.out = r.dict_to_log]
    /\ UNCHANGED <<adata, uns, dm, req, ret, padIn, padOut>>

OnTrainBegin == \E r \in {on_train_begin(call.callbacks, call)} : RunnerCall("on_train_begin", r)

OnLogIteration == \E r \in {on_log_iteration(call.callbacks, call)} : RunnerCall("on_log_iteration", r)

OnTrainEnd == \E r \in {on_train_end(call.callbacks, call)} : RunnerCall("on_train_end", r)

RunnerNext == RunnerNew \/ OnTrainBegin \/ OnLogIteration \/ OnTrainEnd

SpecRunner == RunnerInit /\ [][RunnerNext]_vars

\* ---------------------------------------------------------------- CellFlow
\* the calls made on one CellFlow instance
MaxFlowCalls == 4

\* CellFlow.__init__(adata, solver): dataloader, trainer, model and _solver
\* are None and _validation_data is empty; pdata is not assigned, the
\* instance has no such attribute until prepare_data assigns it
CellFlowInit(solver) ==
    [op |-> "CellFlow", solver |-> solver, pdata |-> "unset", dataloader |-> "None",
     trainer |-> "None", model |-> "None", validation_data |-> {}, solver_ |-> "None",
     calls |-> 0, last |-> "none", error |-> ""]

\* the reading of self.pdata in `if self.pdata is None`: an attribute that
\* was never assigned raises AttributeError, an assigned one is never None
\* (TrainingData.load_from_adata returns an object or raises)
pdata_is_None(self) ==
    IF self.pdata = "unset" THEN "AttributeError: no attribute pdata" ELSE "False"

\* CellFlow.prepare_data(...): loaded is whether TrainingData.load_from_adata
\* returned; when it raises, pdata keeps what it was
prepare_data(self, loaded) ==
    IF loaded
    THEN [self EXCEPT !.pdata = "TrainingData", !.error = ""]
    ELSE [self EXCEPT !.error = "raised by load_from_adata"]

\* CellFlow.prepare_validation_data(adata, name, ...)
prepare_validation_data(self, name, loaded) ==
    IF pdata_is_None(self) # "False"
    THEN [self EXCEPT !.error = pdata_is_None(self)]
    ELSE IF loaded
         THEN [self EXCEPT !.validation_data = @ \cup {name}, !.error = ""]
         ELSE [self EXCEPT !.error = "raised by load_from_adata"]

\* CellFlow.prepare_model(..., flow, ...): flow is the first key of the flow
\* dict; a key other than constant_noise and bridge reaches the raise of
\* NotImplementedError, whose message evaluates `flow.keys()` on the key, a
\* str, which raises AttributeError instead
prepare_model(self, flow) ==
    IF pdata_is_None(self) # "False"
    THEN [self EXCEPT !.error = pdata_is_None(self)]
    ELSE IF flow \notin {"constant_noise", "bridge"}
         THEN [self EXCEPT !.error = "AttributeError: str has no attribute keys"]
         ELSE [self EXCEPT !.solver_ = IF self.solver = "otfm" THEN "OTFlowMatching" ELSE "GENOT",
                           !.trainer = "CellFlowTrainer", !.error = ""]

\* CellFlow.train(num_iterations, ...): trained is whether trainer.train
\* returned; the dataloader is assigned before it is called
train(self, trained) ==
    IF pdata_is_None(self) # "False"
    THEN [self EXCEPT !.error = pdata_is_None(self)]
    ELSE IF self.trainer = "None"
         THEN [self EXCEPT !.error = "ValueError: call prepare_model first"]
         ELSE IF trained
              THEN [self EXCEPT !.dataloader = "TrainSampler", !.model = self.solver_, !.error = ""]
              ELSE [self EXCEPT !.dataloader = "TrainSampler", !.error = "raised by trainer.train"]

\* CellFlow.predict(adata, ...): loaded is whether
\* PredictionData.load_from_adata returned
predict(self, loaded) ==
    IF self.model = "None"
    THEN [self EXCEPT !.error = "ValueError: call train first"]
    ELSE IF loaded THEN [self EXCEPT !.error = ""]
         ELSE [self EXCEPT !.error = "raised by load_from_adata"]

\* CellFlow.get_condition_embedding(adata, ...)
get_condition_embedding(self, loaded) ==
    IF self.model = "None"
    THEN [self EXCEPT !.error = "ValueError: call train first"]
    ELSE IF loaded THEN [self EXCEPT !.error = ""]
         ELSE [self EXCEPT !.error = "raised by load_from_adata"]

\* a fresh instance, for either solver
FlowInit ==
    /\ \E solver \in {"otfm", "genot"} : call = CellFlowInit(solver)
    /\ padIn = NoPad
    /\ padOut = <<>>
    /\ adata = <<>>
    /\ uns = <<>>
    /\ dm = <<>>
    /\ req = NoRequest
    /\ ret = [NoResult EXCEPT !.status = "none"]

\* one call of a method on the instance: r is the instance after it
FlowCall(method, r) ==
    /\ call.op = "CellFlow"
    /\ call.calls < MaxFlowCalls
    /\ call' = [r EXCEPT !.calls = call.calls + 1, !.last = method]
    /\ UNCHANGED <<adata, uns, dm, req, ret, padIn, padOut>>

PrepareData == \E loaded \in BOOLEAN : FlowCall("prepare_data", prepare_data(call, loaded))

PrepareValidationData ==
    \E name \in {"val1", "val2"}, loaded \in BOOLEAN :
        FlowCall("prepare_validation_data", prepare_validation_data(call, name, loaded))

PrepareModel ==
    \E flow \in {"constant_noise", "bridge", "schroedinger_bridge"} :
        FlowCall("prepare_model", prepare_model(call, flow))

Train == \E trained \in BOOLEAN : FlowCall("train", train(call, trained))

Predict == \E loaded \in BOOLEAN : FlowCall("predict", predict(call, loaded))

GetConditionEmbedding ==
    \E loaded \in BOOLEAN : FlowCall("get_condition_embedding", get_condition_embedding(call, loaded))

FlowNext ==
    \/ PrepareData
    \/ PrepareValidationData
    \/ PrepareModel
    \/ Train
    \/ Predict
    \/ GetConditionEmbedding

SpecFlow == FlowInit /\ [][FlowNext]_vars

\* ------------------------------------------------------- _check_shape alone
\* the arrays given to _check_shape: a scalar, a 1-D array, a 2-D array with
\* at least one row and column, a 3-D array
ShapeArrays ==
    LET Axis == 1..MaxShapeLen
    IN       {[ndim |-> 0, val |-> v] : v \in PadVals}
        \cup {[ndim |-> 1, val |-> v] : v \in UNION {[1..n -> PadVals] : n \in 0..MaxShapeLen}}
        \cup {[ndim |-> 2, val |-> v] : v \in UNION {[1..r -> [1..w -> PadVals]] : r \in Axis, w \in Axis}}
        \cup {[ndim |-> 3, val |-> v] :
                 v \in UNION {[1..a -> [1..r -> [1..w -> {0}]]] : a \in {1, 2}, r \in {1, 2}, w \in {1, 2}}}

ShapeInit ==
    /\ \E arr \in ShapeArrays : call = [op |-> "check_shape", arr |-> arr, done |-> FALSE, out |-> <<>>]
    /\ padIn = NoPad
    /\ padOut = <<>>
    /\ adata = <<>>
    /\ uns = <<>>
    /\ dm = <<>>
    /\ req = NoRequest
    /\ ret = [NoResult EXCEPT !.status = "none"]

\* _check_shape(arr)
CheckShape ==
    /\ call.op = "check_shape"
    /\ ~call.done
    /\ call' = [call EXCEPT !.done = TRUE, !.out = check_shape(call.arr)]
    /\ UNCHANGED <<adata, uns, dm, req, ret, padIn, padOut>>

SpecShape == ShapeInit /\ [][CheckShape]_vars

\* ------------------------------------------------------------------ claims
Max(a, b) == IF a > b THEN a ELSE b

ControlCells == {i \in DOMAIN req.obs : req.obs[i].control}

TargetCells == {i \in DOMAIN req.obs : ~req.obs[i].control}

\* the number of conditions of the returned bundle
NumConditions == Cardinality(DOMAIN ret.perturbation_idx_to_covariates)

\* C1: in a returned training/validation bundle a control cell has a source
\* index and perturbation mask -1, a non-control cell has a condition index
\* and split mask -1.
C1_MaskExclusive ==
    ret.status = "ok" =>
        \A i \in DOMAIN req.obs :
            IF req.obs[i].control
            THEN ret.split_covariates_mask[i] >= 0 /\ ret.perturbation_covariates_mask[i] = -1
            ELSE ret.perturbation_covariates_mask[i] >= 0 /\ ret.split_covariates_mask[i] = -1

C1_Witness ==
    /\ ret.status = "ok"
    /\ ret.path = "vectorized"
    /\ ControlCells # {}
    /\ Cardinality(TargetCells) >= 2

\* C2: every discovered condition index 0..N-1 occurs exactly once among the
\* values of control_to_perturbation, and no other value occurs.
C2_CoverageOnce ==
    ret.status = "ok" =>
        LET c2p == ret.control_to_perturbation
            Occurrences(c) ==
                UNION {{<<s, q>> : q \in {x \in DOMAIN c2p[s] : c2p[s][x] = c}} : s \in DOMAIN c2p}
        IN  /\ \A c \in 0..(NumConditions - 1) : Cardinality(Occurrences(c)) = 1
            /\ \A s \in DOMAIN c2p : \A q \in DOMAIN c2p[s] : c2p[s][q] \in 0..(NumConditions - 1)

\* C3: on the input of a request served by the vectorized strategy, the
\* iterative strategy returns the same masks, the same control_to_perturbation
\* and the same two index-to-covariates maps.
C3_StrategiesAgree ==
    ret.path = "vectorized" =>
        LET old == get_condition_data_old(dm, req.obs, req.rep_dict)
        IN  /\ old.status = ret.status
            /\ old.split_covariates_mask = ret.split_covariates_mask
            /\ old.perturbation_covariates_mask = ret.perturbation_covariates_mask
            /\ old.control_to_perturbation = ret.control_to_perturbation
            /\ old.split_idx_to_covariates = ret.split_idx_to_covariates
            /\ old.perturbation_idx_to_covariates = ret.perturbation_idx_to_covariates

\* the (split columns, perturbation covariate columns) combination of cell i
Combination(i) ==
    Project(req.obs[i], dm.split_covariates) \o Project(req.obs[i], dm.perturb_covar_keys)

\* C4: the condition indices are 0..N-1 for the N distinct combinations among
\* non-control rows, one index per combination, increasing in the sort order
\* of the split columns first and the perturbation columns second.
C4_ConditionIndexOrder ==
    ret.status = "ok" =>
        LET N == Cardinality({Combination(i) : i \in TargetCells})
            mask == ret.perturbation_covariates_mask
        IN  /\ DOMAIN ret.perturbation_idx_to_covariates = 0..(N - 1)
            /\ {mask[i] : i \in TargetCells} = 0..(N - 1)
            /\ \A i, j \in TargetCells :
                 /\ (Combination(i) = Combination(j)) <=> (mask[i] = mask[j])
                 /\ LexLess(Combination(i), Combination(j)) => mask[i] < mask[j]

\* C5: the source indices are 0..K-1 for the K distinct split tuples among
\* control rows, in the sort order of the split columns, and
\* split_idx_to_covariates maps each to its tuple.
C5_SourceIndexOrder ==
    ret.status = "ok" =>
        LET combs == SortTuples({Project(req.obs[i], dm.split_covariates) : i \in ControlCells})
        IN  /\ DOMAIN ret.split_idx_to_covariates = 0..(Len(combs) - 1)
            /\ \A k \in DOMAIN ret.split_idx_to_covariates :
                 ret.split_idx_to_covariates[k] = combs[k + 1]
            /\ \A i \in ControlCells :
                 ret.split_covariates_mask[i] =
                     IndexOf(combs, Project(req.obs[i], dm.split_covariates)) - 1

\* the values of the declared split covariates of condition index c
SplitOfCondition(c) ==
    LET i == CHOOSE j \in TargetCells : ret.perturbation_covariates_mask[j] = c
    IN  Project(req.obs[i], dm.split_covariates)

\* C6: control_to_perturbation[s] holds exactly the condition indices whose
\* split-covariate values equal the split tuple of source index s.
C6_MappingMatchesSplit ==
    ret.status = "ok" =>
        \A s \in DOMAIN ret.control_to_perturbation :
            Range(ret.control_to_perturbation[s]) =
                {c \in DOMAIN ret.perturbation_idx_to_covariates :
                    SplitOfCondition(c) = ret.split_idx_to_covariates[s]}

\* C7: after a request every representation table entry has the value it had
\* before the request.
C7_TablesUnchanged ==
    req.kind # "none" => uns = req.rep_dict

\* np.array(emb).shape of the assembled arrays of one group
Shape(embs) ==
    IF embs = <<>> THEN <<0>> ELSE <<Len(embs), Len(embs[1]), Len(embs[1][1])>>

\* the condition (pd.Series over perturb_covar_keys) of condition index c
ConditionOfIndex(c) ==
    LET i == CHOOSE j \in TargetCells : ret.perturbation_covariates_mask[j] = c
    IN  [k \in Range(dm.perturb_covar_keys) |-> req.obs[i][k]]

RECURSIVE SetToSeq(_)
SetToSeq(S) == IF S = {} THEN <<>> ELSE LET x == CHOOSE y \in S : TRUE IN <<x>> \o SetToSeq(S \ {x})

\* the embeddings condition index c can get: assembled from the tables of the
\* request as any subset of the other conditions' assemblies has left them
EmbeddingsOf(c) ==
    {get_perturbation_covariates(dm, ConditionOfIndex(c),
        AfterTasks(dm, [k \in 1..Cardinality(B) |-> ConditionOfIndex(SetToSeq(B)[k])],
                   req.rep_dict)).emb :
        B \in SUBSET (DOMAIN ret.perturbation_idx_to_covariates \ {c})}

\* C8: condition_data[group] has the three dimensions (conditions,
\* max_combination_length, feature width), and position i of its first axis
\* is the embedding of condition index i.
C8_ShapeContract ==
    ret.status = "ok" =>
        \A g \in DOMAIN ret.condition_data :
            LET embs == ret.condition_data[g]
            IN  /\ Len(Shape(embs)) = 3
                /\ Shape(embs)[1] = NumConditions
                /\ Shape(embs)[2] = dm.max_combination_length
                /\ \A c \in DOMAIN ret.perturbation_idx_to_covariates :
                     /\ \A row \in DOMAIN embs[c + 1] : Len(embs[c + 1][row]) = Shape(embs)[3]
                     /\ \E e \in EmbeddingsOf(c) : e[g] = embs[c + 1]

\* C9: _pad_to_max_length keeps the r input rows in order, returns
\* max(r, max_combination_length) rows, and every appended row has the input's
\* width and holds null_value only.
C9_PadKeepsRows ==
    (padOut # <<>> /\ ~padIn.padded) =>
        LET r == Len(padIn.arr)
        IN  /\ Len(padOut) = Max(r, padIn.max_combination_length)
            /\ \A i \in 1..r : padOut[i] = padIn.arr[i]
            /\ \A i \in (r + 1)..Len(padOut) :
                 /\ Len(padOut[i]) = Len(padIn.arr[1])
                 /\ \A j \in DOMAIN padOut[i] : padOut[i][j] = padIn.null_value

C9_Witness ==
    /\ padOut # <<>>
    /\ ~padIn.padded
    /\ Len(padIn.arr) < padIn.max_combination_length
    /\ Len(padOut) = padIn.max_combination_length

\* C10: padding an array that _pad_to_max_length returned, with the same
\* max_combination_length and null_value, returns it unchanged.
C10_PadIdempotent ==
    padIn.padded => padOut = padIn.arr

C10_Witness ==
    /\ padIn.padded
    /\ padIn.first_rows < Len(padIn.arr)
    /\ padOut = padIn.arr

\* C11: _check_shape returns one row for every accepted input: (1,1) for a
\* scalar, (1,n) for a 1-D array of length n, a (1,n) array as it is, the
\* transpose of an (n,1) array; a 2-D array with both axes longer than 1 and
\* an array of more than two dimensions raise.
C11_CheckShapeRowVector ==
    (call.op = "check_shape" /\ call.done) =>
        LET v == call.arr.val
            out == call.out
        IN  CASE call.arr.ndim = 0 -> out.error = "" /\ out.arr = << <<v>> >>
              [] call.arr.ndim = 1 ->
                    /\ out.error = "" /\ Len(out.arr) = 1 /\ Len(out.arr[1]) = Len(v)
                    /\ \A i \in DOMAIN v : out.arr[1][i] = v[i]
              [] call.arr.ndim = 2 /\ Len(v) = 1 -> out.error = "" /\ out.arr = v
              [] call.arr.ndim = 2 /\ Len(v) > 1 /\ Len(v[1]) = 1 ->
                    /\ out.error = "" /\ Len(out.arr) = 1 /\ Len(out.arr[1]) = Len(v)
                    /\ \A i \in DOMAIN v : out.arr[1][i] = v[i][1]
              [] OTHER -> out.error # ""

C11_Witness ==
    /\ call.op = "check_shape"
    /\ call.done
    /\ call.arr.ndim = 2
    /\ Len(call.arr.val) > 1
    /\ call.out.error = ""
    /\ Len(call.out.arr) = 1

\* C12: when a lookup key is absent from the representation table configured
\* for its group, the request raises (no bundle), and the error names the
\* missing key and the key of the representation table that was searched.
C12_MissingKeyNamesTable ==
    /\ (req.kind # "none" /\ ControlCells # {}
           /\ \E i \in TargetCells : \E c \in Range(dm.sample_covariates) :
                  /\ c \in DOMAIN dm.covariate_reps
                  /\ req.obs[i][c] \notin DOMAIN req.rep_dict[dm.covariate_reps[c]])
          => ret.status = "error"
    /\ ret.error = "ValueError: representation not found" =>
          /\ ret.status = "error"
          /\ \E g \in DOMAIN dm.covariate_reps :
                /\ ret.msg_args.table = dm.covariate_reps[g]
                /\ ret.msg_args.key \notin DOMAIN req.rep_dict[dm.covariate_reps[g]]

\* the constructor was called with an explicit max_combination_length smaller
\* than the longest of its perturbation covariate groups
SmallMax ==
    /\ call.op = "DataManager"
    /\ call.done
    /\ call.args.max_combination_length # 0
    /\ call.args.max_combination_length < MaxLen(call.args.perturbation_covariates.groups)

ControlOnlySplits ==
    LET obs == call.args.obs
        cols == call.args.split_covariates
    IN  {Project(obs[i], cols) : i \in {j \in DOMAIN obs : obs[j].control}}
          \ {Project(obs[i], cols) : i \in {j \in DOMAIN obs : ~obs[j].control}}

\* C14: with split covariates declared, construction fails whenever a split
\* combination occurs among the control rows and among no non-control row; a
\* manager that was constructed has every control split combination among
\* its non-control rows, and the error about sources without targets is
\* raised for no other table.
C14_ControlOnlySplitRejected ==
    (call.op = "DataManager" /\ call.done /\ call.args.split_covariates # <<>>) =>
        /\ ControlOnlySplits # {} => call.error # ""
        /\ call.error = "" =>
              \A i \in DOMAIN adata : adata[i].control =>
                  \E j \in DOMAIN adata :
                      /\ ~adata[j].control
                      /\ Project(adata[j], dm.split_covariates) = Project(adata[i], dm.split_covariates)
        /\ call.error = "ValueError: source without target" => ControlOnlySplits # {}

C14_Witness ==
    /\ call.op = "DataManager"
    /\ call.done
    /\ call.args.split_covariates = <<"batch">>
    /\ \E i, j \in DOMAIN call.args.obs :
          /\ call.args.obs[i].control /\ ~call.args.obs[j].control
          /\ call.args.obs[i].batch # call.args.obs[j].batch
    /\ call.error = "ValueError: source without target"

\* C15: an empty mapping, a group without columns and groups of different
\* lengths are rejected; in a constructed manager all perturbation covariate
\* groups have the same length and every primary column has a linked column
\* in every secondary group.
C15_GroupLengthsEqual ==
    (call.op = "DataManager" /\ call.done) =>
        LET data == call.args.perturbation_covariates
            groups == data.groups
        IN  /\ ( /\ data.given
                 /\ \/ groups = <<>>
                    \/ \E k \in DOMAIN groups : groups[k].covars = <<>>
                    \/ \E k, l \in DOMAIN groups : Len(groups[k].covars) # Len(groups[l].covars) )
                  => call.error # ""
            /\ call.error = "" =>
                  /\ dm.perturbation_covariates = groups
                  /\ \A k, l \in DOMAIN groups : Len(groups[k].covars) = Len(groups[l].covars)
                  /\ \A p \in Range(groups[1].covars) : \A k \in 2..Len(groups) :
                        /\ groups[k].group \in DOMAIN call.linked_perturb_covars[p]
                        /\ call.linked_perturb_covars[p][groups[k].group]
                               = groups[k].covars[IndexOf(groups[1].covars, p)]

C15_Witness ==
    /\ call.op = "DataManager"
    /\ call.done
    /\ call.error = ""
    /\ Len(dm.perturbation_covariates) = 2
    /\ Len(dm.perturbation_covariates[1].covars) = 2
    /\ call.linked_perturb_covars["drug2"]["dose"] = "dose2"

\* C19: a configuration in which any perturbation covariate group mixes a
\* categorical column with a numeric/boolean column is rejected at
\* construction.
C19_MixedGroupRejected ==
    (call.op = "DataManager" /\ call.done /\ call.args.perturbation_covariates.given) =>
        LET groups == call.args.perturbation_covariates.groups
        IN  (\E k \in DOMAIN groups : \E c, d \in Range(groups[k].covars) :
                 call.args.dtypes[c] # call.args.dtypes[d])
              => call.error # ""

\* the one-hot code of the name of the k-th primary column over the
\* configured primary column names, times value
NameCodeTimes(k, value) ==
    [j \in 1..Len(dm.perturbation_covariates[1].covars) |-> IF j = k THEN value ELSE 0]

\* the one-hot code of value over the sorted union of the values that the
\* primary columns hold in the construction table
ValueCode(value) ==
    LET all_values == {adata[i][p] : i \in DOMAIN adata, p \in Range(dm.perturbation_covariates[1].covars)}
    IN  [j \in 1..Cardinality(all_values) |->
            IF Cardinality({v \in all_values : v < value}) = j - 1 THEN 1 ELSE 0]

\* C16: for a primary group without representation table, row k of the
\* embedding of a condition is, for a numeric group, the one-hot code of the
\* name of the k-th primary column times the condition's value in that
\* column and, for a categorical group, the one-hot code of that value over
\* the values of the primary columns at construction.
C16_PrimaryRowEncoding ==
    LET primary_group == dm.perturbation_covariates[1].group
        primary_covars == dm.perturbation_covariates[1].covars
    IN  (ret.status = "ok" /\ primary_group \notin DOMAIN dm.covariate_reps) =>
            \A c \in DOMAIN ret.perturbation_idx_to_covariates :
                \A k \in DOMAIN primary_covars :
                    ret.condition_data[primary_group][c + 1][k] =
                        IF dm.is_categorical
                        THEN ValueCode(ConditionOfIndex(c)[primary_covars[k]])
                        ELSE NameCodeTimes(k, ConditionOfIndex(c)[primary_covars[k]])

C16_Witness ==
    /\ ret.status = "ok"
    /\ ~dm.is_categorical
    /\ dm.covariate_reps = <<>>
    /\ Len(dm.perturbation_covariates[1].covars) = 2
    /\ \E c \in DOMAIN ret.perturbation_idx_to_covariates :
          /\ ConditionOfIndex(c)["drug2"] = 2
          /\ ret.condition_data["drug"][c + 1][2] = <<0, 2>>

IdCall == call.op \in {"get_prediction_data", "get_condition_data"} /\ call.condition_id_key # "none"

\* the call was rejected because of the condition id column
IdRejected ==
    call.out.error \in {"ValueError: condition_id_key not found", "ValueError: condition_id_key not unique"}

\* the condition of row i of the covariate table of the call
PredCondition(i) == Project(call.covariate_data[i], dm.perturb_covar_keys)

\* C18 as stated: with a condition id column the request is rejected for it
\* exactly when the column is missing or two different conditions carry the
\* same id.
C18_RejectedIffConditionsShareId ==
    IdCall =>
        (IdRejected <=>
            \/ call.condition_id_key = "missing"
            \/ \E i, j \in DOMAIN call.covariate_data :
                  /\ PredCondition(i) # PredCondition(j)
                  /\ call.covariate_data[i].id = call.covariate_data[j].id)

\* C18: with a condition id column the request is rejected for it exactly
\* when the column is missing or two rows of the covariate table carry the
\* same id, whether or not the rows are the same condition; an accepted
\* table yields one condition index per row, and perturbation_idx_to_id maps
\* each index to the id of the row whose covariates
\* perturbation_idx_to_covariates holds at that index.
C18_RejectedIffRowsShareId ==
    IdCall =>
        /\ IdRejected <=>
              \/ call.condition_id_key = "missing"
              \/ \E i, j \in DOMAIN call.covariate_data :
                    i # j /\ call.covariate_data[i].id = call.covariate_data[j].id
        /\ call.out.error = "" =>
              /\ DOMAIN call.out.perturbation_idx_to_id = 0..(Len(call.covariate_data) - 1)
              /\ DOMAIN call.out.perturbation_idx_to_covariates = DOMAIN call.out.perturbation_idx_to_id
              /\ \A c \in DOMAIN call.out.perturbation_idx_to_id :
                    \E i \in DOMAIN call.covariate_data :
                        /\ call.covariate_data[i].id = call.out.perturbation_idx_to_id[c]
                        /\ PredCondition(i) = call.out.perturbation_idx_to_covariates[c]

C18_Witness ==
    /\ call.op = "get_condition_data"
    /\ call.condition_id_key = "id"
    /\ Len(call.covariate_data) = 2
    /\ PredCondition(1) # PredCondition(2)
    /\ call.out.error = ""
    /\ call.out.perturbation_idx_to_id[0] # call.out.perturbation_idx_to_id[1]

\* C20: get_prediction_data returns as cell data the representation named by
\* its sample_rep argument, adata.X for "X" and adata.obsm[sample_rep]
\* otherwise, whatever sample_rep the manager was constructed with.
C20_CellDataOfArgument ==
    (call.op = "get_prediction_data" /\ call.sample_rep \in DOMAIN call.ad.obsm \cup {"X"}) =>
        /\ call.out.error \notin {"KeyError", "AttributeError"}
        /\ call.out.error = "" =>
              call.out.cell_data = IF call.sample_rep = "X" THEN call.ad.X
                                   ELSE call.ad.obsm[call.sample_rep]

TargetOnlySplits ==
    {Project(req.obs[i], dm.split_covariates) : i \in TargetCells}
      \ {Project(req.obs[i], dm.split_covariates) : i \in ControlCells}

\* C26: when a split combination occurs only among the non-control rows of
\* the table of a request, the request succeeds and the source index made for
\* that combination has an empty condition set in control_to_perturbation.
C26_TargetOnlySplitEmpty ==
    (req.kind # "none" /\ dm.split_covariates # <<>> /\ ret.status = "ok") =>
        \A comb \in TargetOnlySplits :
            \E s \in DOMAIN ret.split_idx_to_covariates :
                /\ ret.split_idx_to_covariates[s] = comb
                /\ s \in DOMAIN ret.control_to_perturbation
                /\ ret.control_to_perturbation[s] = <<>>

\* C27: in a bundle of the vectorized strategy every group of condition_data
\* has one embedding per discovered condition index, and the embedding at
\* position c is the one assembled for the covariate combination of the cells
\* that perturbation_covariates_mask gives index c, under every schedule of
\* the tasks.
C27_EmbeddingsByConditionIndex ==
    (ret.status = "ok" /\ ret.path = "vectorized") =>
        \A g \in DOMAIN ret.condition_data :
            /\ Len(ret.condition_data[g]) = NumConditions
            /\ \A i \in TargetCells :
                  LET c == ret.perturbation_covariates_mask[i]
                  IN  /\ c \in DOMAIN ret.perturbation_idx_to_covariates
                      /\ \E e \in EmbeddingsOf(c) : e[g] = ret.condition_data[g][c + 1]

\* the second task in row order carries the smaller condition index
C27_Witness ==
    /\ ret.status = "ok"
    /\ ret.path = "vectorized"
    /\ \E i, j \in TargetCells :
          /\ i < j
          /\ ret.perturbation_covariates_mask[i] > ret.perturbation_covariates_mask[j]
          /\ \E g \in DOMAIN ret.condition_data :
                ret.condition_data[g][ret.perturbation_covariates_mask[i] + 1]
                    # ret.condition_data[g][ret.perturbation_covariates_mask[j] + 1]

\* C29: the max_combination_length of a constructed manager is at least the
\* length of every perturbation covariate group, is the longest group length
\* when none was supplied and the supplied value when that is at least the
\* longest group length; every perturbation group array of a returned bundle
\* has exactly max_combination_length rows.
C29_MaxCombinationLength ==
    /\ \A k \in DOMAIN dm.perturbation_covariates :
          dm.max_combination_length >= Len(dm.perturbation_covariates[k].covars)
    /\ \A cfg \in Configs2 :
          dm = DataManagerInit(adata, cfg) =>
              LET longest == Len(cfg.perturbation_covariates[1].covars)
              IN  /\ cfg.max_combination_length = 0 => dm.max_combination_length = longest
                  /\ cfg.max_combination_length >= longest =>
                        dm.max_combination_length = cfg.max_combination_length
    /\ ret.status = "ok" =>
          \A k \in DOMAIN dm.perturbation_covariates :
              \A c \in DOMAIN ret.perturbation_idx_to_covariates :
                  Len(ret.condition_data[dm.perturbation_covariates[k].group][c + 1])
                      = dm.max_combination_length

\* a bundle of a manager of a two-column group constructed with the value 3
C29_Witness ==
    /\ ret.status = "ok"
    /\ Len(dm.perturbation_covariates[1].covars) = 2
    /\ dm.max_combination_length = 3
    /\ \E c \in DOMAIN ret.perturbation_idx_to_covariates :
          /\ Len(ret.condition_data["drug"][c + 1]) = 3
          /\ ret.condition_data["drug"][c + 1][3] = <<0, 0>>

\* the source indices of the cell mask of a prediction bundle
PredSources ==
    {call.out.split_covariates_mask[i] : i \in DOMAIN call.out.split_covariates_mask} \ {-1}

\* get_prediction_data has returned a bundle
Predicted == call.op = "get_prediction_data" /\ call.out.error = ""

\* the split combinations of the covariate table of the call that no cell of
\* its adata has
SplitsWithoutCells ==
    {Project(call.covariate_data[i], dm.split_covariates) : i \in DOMAIN call.covariate_data}
      \ {Project(call.ad.obs[i], dm.split_covariates) : i \in DOMAIN call.ad.obs}

\* C30 as stated: in a bundle of get_prediction_data the source indices of
\* split_covariates_mask are the keys of control_to_perturbation and the keys
\* of split_idx_to_covariates, with and without split covariates.
C30_SourceIndexSpace ==
    Predicted =>
        /\ PredSources = DOMAIN call.out.control_to_perturbation
        /\ PredSources = DOMAIN call.out.split_idx_to_covariates

\* C30: in a bundle of get_prediction_data the source indices of
\* split_covariates_mask are the keys of control_to_perturbation; they are
\* the keys of split_idx_to_covariates when the manager has split covariates,
\* while without split covariates every cell has source index 0 and
\* split_idx_to_covariates is empty; a split combination of covariate_data
\* that no cell of adata has makes the call fail.
C30_SourceIndexSpaceSplit ==
    call.op = "get_prediction_data" =>
        /\ Predicted =>
              /\ PredSources = DOMAIN call.out.control_to_perturbation
              /\ IF dm.split_covariates # <<>>
                 THEN PredSources = DOMAIN call.out.split_idx_to_covariates
                 ELSE PredSources = {0} /\ call.out.split_idx_to_covariates = <<>>
        /\ (dm.split_covariates # <<>> /\ SplitsWithoutCells # {}) => call.out.error # ""

\* a bundle with two source indices
C30_Witness ==
    /\ Predicted
    /\ dm.split_covariates # <<>>
    /\ PredSources = {0, 1}
    /\ DOMAIN call.out.split_idx_to_covariates = {0, 1}
    /\ DOMAIN call.out.control_to_perturbation = {0, 1}

\* CallbackRunner(callbacks) has returned or raised
RunnerTried == call.op = "CallbackRunner" /\ (call.constructed \/ call.error # "")

\* the positions of the computation and of the logging callbacks given
GivenComputation == {i \in DOMAIN call.callbacks : call.callbacks[i].kind = "computation"}

GivenLogging == {i \in DOMAIN call.callbacks : call.callbacks[i].kind = "logging"}

\* C21: constructing a CallbackRunner raises ValueError exactly when it is
\* given at least one logging callback and no computation callback.
C21_LoggingNeedsComputation ==
    RunnerTried => (call.error # "" <=> (GivenLogging # {} /\ GivenComputation = {}))

\* the events of the last runner call that belong to callback i
EventsOf(i) == SelectSeq(call.events, LAMBDA e : e.callback = i)

\* C22: a call of CallbackRunner.on_train_end calls on_train_end of every
\* computation callback and then of every logging callback, each exactly
\* once.
C22_TrainEndHooks ==
    (call.op = "CallbackRunner" /\ call.last = "on_train_end") =>
        /\ \A i \in GivenComputation \cup GivenLogging :
              /\ Len(EventsOf(i)) = 1
              /\ EventsOf(i)[1].hook = "on_train_end"
        /\ \A k, l \in DOMAIN call.events :
              (call.events[k].callback \in GivenComputation /\ call.events[l].callback \in GivenLogging)
                  => k < l

\* the metrics of the computation callbacks at the positions todo merged in
\* that order, a later value replacing an earlier one of the same key
RECURSIVE MergedMetrics(_)
MergedMetrics(todo) ==
    IF todo = <<>> THEN <<>>
    ELSE LET before == MergedMetrics(SubSeq(todo, 1, Len(todo) - 1))
             latest == call.callbacks[todo[Len(todo)]].results
         IN  [key \in DOMAIN before \cup DOMAIN latest |->
                 IF key \in DOMAIN latest THEN latest[key] ELSE before[key]]

\* C28: a call of CallbackRunner.on_log_iteration calls on_log_iteration of
\* the computation callbacks in registration order, then of the logging
\* callbacks, each once; every logging callback is passed the dictionary
\* merged from all computation results, later results replacing earlier ones,
\* and the call returns that dictionary.
C28_LogIterationOrder ==
    (call.op = "CallbackRunner" /\ call.last = "on_log_iteration") =>
        LET computation == InstancesOf(call.callbacks, "computation")
            logging == InstancesOf(call.callbacks, "logging")
            nc == Len(computation)
        IN  /\ Len(call.events) = nc + Len(logging)
            /\ \A k \in 1..nc :
                  /\ call.events[k].callback = computation[k]
                  /\ call.events[k].hook = "on_log_iteration"
            /\ \A k \in 1..Len(logging) :
                  /\ call.events[nc + k].callback = logging[k]
                  /\ call.events[nc + k].hook = "on_log_iteration"
                  /\ call.events[nc + k].arg = MergedMetrics(computation)
            /\ call.out = MergedMetrics(computation)

\* two computation callbacks with different values of one key, then a logger
C28_Witness ==
    /\ call.op = "CallbackRunner"
    /\ call.last = "on_log_iteration"
    /\ Len(call.callbacks) = 3
    /\ call.callbacks[1].results = ("a" :> 1)
    /\ call.callbacks[2].results = ("a" :> 2)
    /\ call.callbacks[3].kind = "logging"
    /\ call.events[3].arg = ("a" :> 2)

\* the errors by which CellFlow rejects a call made out of order
FlowValueErrors == {"ValueError: call prepare_data first", "ValueError: call prepare_model first",
                    "ValueError: call train first"}

\* what a rejected call must leave alone
FlowObjects(self) == <<self.solver_, self.trainer, self.dataloader, self.model>>

\* C23: on an instance whose prepare_data has not assigned pdata,
\* prepare_validation_data, prepare_model and train raise the ValueError that
\* asks for prepare_data; train raises the ValueError that asks for
\* prepare_model when prepared without a trainer; predict and
\* get_condition_embedding raise the ValueError that asks for train while
\* there is no model; and a call rejected so leaves solver, trainer,
\* dataloader and model as they were.
C23_CallOrder ==
    [][call.op = "CellFlow" /\ call'.calls = call.calls + 1 =>
          /\ (call'.last \in {"prepare_validation_data", "prepare_model", "train"} /\ call.pdata = "unset")
                 => call'.error = "ValueError: call prepare_data first"
          /\ (call'.last = "train" /\ call.pdata # "unset" /\ call.trainer = "None")
                 => call'.error = "ValueError: call prepare_model first"
          /\ (call'.last \in {"predict", "get_condition_embedding"} /\ call.model = "None")
                 => call'.error = "ValueError: call train first"
          /\ call'.error \in FlowValueErrors => FlowObjects(call') = FlowObjects(call)]_vars

====
